---- MODULE Spec2Model ----
(***************************************************************************)
(* Model of the query-understanding pipeline of Thesis_playground:         *)
(*   - LRUCache and IntentClassifierLLM (src/src/module1/                  *)
(*     intent_classifier.py),                                              *)
(*   - classify_query (src/src/module1/routing_classifier.py),             *)
(*   - LLMClient.chat's error sentinel (src/shared/llm_client.py).         *)
(*                                                                         *)
(* Python strings are modelled as records [base, up, pad]: base is the     *)
(* text lowercased and trimmed, up says that the text holds upper-case     *)
(* letters, pad that it is surrounded by whitespace.  str.lower() clears   *)
(* up, str.strip() clears pad; two Python strings are equal exactly when   *)
(* the three fields are equal.                                             *)
(***************************************************************************)
EXTENDS Integers, Sequences, FiniteSets, TLC

VARIABLES
    valid_intents,   \* IntentClassifierLLM.valid_intents (list of labels)
    enable_caching,  \* IntentClassifierLLM.enable_caching
    max_size,        \* LRUCache.max_size (= max_cache_size)
    cache,           \* LRUCache.cache: OrderedDict, oldest entry first
    cache_hits,      \* IntentClassifierLLM.cache_hits
    cache_misses,    \* IntentClassifierLLM.cache_misses
    last,            \* the last operation: its arguments and its outcome
    lastUse,         \* history: key -> time of its last use (0: not cached)
    clock,           \* history: number of uses so far
    txt,             \* parser input: the raw service response
    parsed,          \* parser output ("" before the parser has run)
    route_in,        \* classify_query's inputs: load, chat outcome, raw
    route_out,       \* classify_query's outcome ("" before the call)
    data_dir,        \* DATA_DIR: the game files and the event files on disk
    handler,         \* SimpleRugbyDataHandler(): "none", "ready" or "failed"
    games,           \* SimpleRugbyDataHandler.games
    events,          \* SimpleRugbyDataHandler.events
    players,         \* SimpleRugbyDataHandler.players
    query_result,    \* the last get_data_for_query call and its outcome
    ner_in,          \* SpacyEntityExtractor.extract's query, as annotated
    ner_out          \* extract's outcome

vars == <<valid_intents, enable_caching, max_size, cache, cache_hits,
          cache_misses, last, lastUse, clock, txt, parsed, route_in,
          route_out, data_dir, handler, games, events, players, query_result,
          ner_in, ner_out>>

\* the state of the data handler and of the entity extractor
dataVars == <<data_dir, handler, games, events, players, query_result,
              ner_in, ner_out>>

-----------------------------------------------------------------------------
(* Bounds of the model.                                                    *)

MaxCacheSize == 2
MaxOps == 4
MaxClassify == 3
MaxTextLen == 4
MaxRespTokens == 2
MaxGameFiles == 2
MaxEventFiles == 2
MaxEvents == 3
MaxGradeEvents == 2
MaxDocLen == 3
MaxRefs == 2

-----------------------------------------------------------------------------
(* Python strings.                                                         *)

Str(b, u, p) == [base |-> b, up |-> u, pad |-> p]

EmptyStr == Str("", FALSE, FALSE)

\* no trimming at all
Strip_noop(s) == s

\* str.strip()
Strip(s) == [s EXCEPT !.pad = FALSE]

\* str.lower()
Lower(s) == [s EXCEPT !.up = FALSE]

\* truth value of a string: a non-empty string, whitespace included, is true
Truthy(s) == s.base # "" \/ s.pad

\* Python's None where a label is expected (dict value, return value)
None == "<None>"

\* Python's None where a string is expected (query, raw response)
NoneStr == Str("<None>", FALSE, FALSE)

\* (x or ""): None and the empty string both give the empty string
OrEmpty(x) == IF x = NoneStr \/ ~Truthy(x) THEN EmptyStr ELSE x

Range(f) == {f[i] : i \in DOMAIN f}

-----------------------------------------------------------------------------
(* LRUCache: an OrderedDict, modelled as the sequence of its entries in    *)
(* dictionary order (oldest first).                                        *)

Entry(k, v) == [key |-> k, value |-> v]

KeysOf(c) == {c[i].key : i \in DOMAIN c}

\* key in self.cache
HasKey(c, k) == k \in KeysOf(c)

IndexOf(c, k) == CHOOSE i \in DOMAIN c : c[i].key = k

\* self.cache[key]
ValueOf(c, k) == c[IndexOf(c, k)].value

\* the sequence c without its i-th entry
RemoveAt(c, i) == [j \in 1..(Len(c) - 1) |-> IF j < i THEN c[j] ELSE c[j + 1]]

\* OrderedDict.move_to_end(key)
MoveToEnd(c, k) == Append(RemoveAt(c, IndexOf(c, k)), c[IndexOf(c, k)])

\* self.cache[key] = value for a key already present: the position is kept
SetValue(c, k, v) == [c EXCEPT ![IndexOf(c, k)].value = v]

\* popitem(last=True): drops the newest entry instead of the oldest
PopFirst_newest(c) == SubSeq(c, 1, Len(c) - 1)

\* OrderedDict.popitem(last=False) on a non-empty dictionary
PopFirst(c) == Tail(c)

\* LRUCache.get: the cache afterwards and the value returned
LRU_get(c, k) ==
    IF HasKey(c, k)
    THEN [cache |-> MoveToEnd(c, k), ret |-> ValueOf(c, k)]
    ELSE [cache |-> c, ret |-> None]

\* put with the capacity test written > instead of >=
LRU_put_late(c, max, k, v) ==
    IF HasKey(c, k)
    THEN [cache |-> SetValue(MoveToEnd(c, k), k, v), raised |-> FALSE]
    ELSE IF Len(c) > max
         THEN [cache |-> Append(PopFirst(c), Entry(k, v)), raised |-> FALSE]
         ELSE [cache |-> Append(c, Entry(k, v)), raised |-> FALSE]

\* LRUCache.put: the cache afterwards; raised when popitem finds the
\* dictionary empty (KeyError), and then nothing is stored
LRU_put(c, max, k, v) ==
    IF HasKey(c, k)
    THEN [cache |-> SetValue(MoveToEnd(c, k), k, v), raised |-> FALSE]
    ELSE IF Len(c) >= max
         THEN IF Len(c) = 0
              THEN [cache |-> c, raised |-> TRUE]
              ELSE [cache |-> Append(PopFirst(c), Entry(k, v)), raised |-> FALSE]
         ELSE [cache |-> Append(c, Entry(k, v)), raised |-> FALSE]

\* LRUCache.clear
LRU_clear(c) == <<>>

-----------------------------------------------------------------------------
(* The text of a service response, as the sequence of its pieces.  A piece *)
(* is a brace, a bare word, or a quoted pair "<key>": "<value>"; pieces    *)
(* are separated by whitespace.  In a word, glue says that the word runs   *)
(* on into further letters (as compare does in compared).                  *)

Tok(t, k, v, g) == [t |-> t, k |-> k, v |-> v, glue |-> g]

LBrace == Tok("lb", EmptyStr, EmptyStr, FALSE)
RBrace == Tok("rb", EmptyStr, EmptyStr, FALSE)
Pair(k, v) == Tok("pair", k, v, FALSE)
Word(v) == Tok("word", EmptyStr, v, FALSE)
Glued(v) == Tok("word", EmptyStr, v, TRUE)

\* str.lower() on a piece and on a text
LowerTok(t) == [t EXCEPT !.k = Lower(t.k), !.v = Lower(t.v)]
LowerText(s) == [i \in DOMAIN s |-> LowerTok(s[i])]

\* a label list made of the intents that the data handler dispatches on
DefaultIntents_ofHandler ==
    <<"get_stats", "compare", "get_player_info", "top_stat_in_game",
      "get_rankings", "get_team_info", "get_game_info">>

\* the default label list of IntentClassifierLLM.__init__
DefaultIntents ==
    <<"get_stats", "compare", "get_roster", "get_result", "get_player_info",
      "top_stat_in_game", "get_grades">>

\* intent in self.valid_intents, for a Python string: equal to a label
IsLabel(valid, s) == ~s.up /\ ~s.pad /\ s.base \in Range(valid)

SetMin(S) == CHOOSE x \in S : \A y \in S : x <= y

\* re.search(r"\{.*?\}", txt, flags=re.S): the leftmost opening brace that
\* a closing brace follows, up to the first closing brace after it;
\* <<0, 0>> when there is no match
BraceSearch(s) ==
    LET starts == {i \in DOMAIN s :
                      s[i].t = "lb" /\ \E j \in (i + 1)..Len(s) : s[j].t = "rb"}
    IN  IF starts = {} THEN <<0, 0>>
        ELSE LET i == SetMin(starts)
                 j == SetMin({e \in (i + 1)..Len(s) : s[e].t = "rb"})
             IN  <<i, j>>

\* json.loads of a brace span with the pieces inner between its braces:
\* {} and {"<key>": "<value>"} are objects, anything else raises
JsonLoads(inner) ==
    IF Len(inner) = 0 THEN [ok |-> TRUE, keys |-> {}, val |-> EmptyStr]
    ELSE IF Len(inner) = 1 /\ inner[1].t = "pair"
         THEN [ok |-> TRUE, keys |-> {inner[1].k}, val |-> inner[1].v]
         ELSE [ok |-> FALSE, keys |-> {}, val |-> EmptyStr]

\* data.get("intent", "")
DictGetIntent(d) ==
    IF Str("intent", FALSE, FALSE) \in d.keys THEN d.val ELSE EmptyStr

\* Stage A without the try/except around json.loads
StageA_uncaught(valid, s) ==
    LET m == BraceSearch(s) IN
    IF m[1] = 0 THEN None
    ELSE LET data == JsonLoads(SubSeq(s, m[1] + 1, m[2] - 1))
             intent == Lower(Strip(DictGetIntent(data)))
         IN  IF ~data.ok THEN "<JSONDecodeError>"
             ELSE IF IsLabel(valid, intent) THEN intent.base ELSE None

\* Stage A: the label of the first JSON object, or None
StageA(valid, s) ==
    LET m == BraceSearch(s) IN
    IF m[1] = 0 THEN None
    ELSE LET data == JsonLoads(SubSeq(s, m[1] + 1, m[2] - 1))
             intent == Lower(Strip(DictGetIntent(data)))
         IN  IF data.ok /\ IsLabel(valid, intent) THEN intent.base ELSE None

\* the pieces re.search(r'"intent"\s*:\s*"([^"]+)"', txt, flags=re.I) can
\* match: the key is intent in any case, the value is not empty
IntentPairs(s) ==
    {i \in DOMAIN s :
        /\ s[i].t = "pair"
        /\ s[i].k.base = "intent"
        /\ ~s[i].k.pad
        /\ Truthy(s[i].v)}

\* Stage B: the label of the first "intent": "<value>" match, or None
StageB(valid, s) ==
    LET hits == IntentPairs(s) IN
    IF hits = {} THEN None
    ELSE LET intent == Lower(Strip(s[SetMin(hits)].v))
         IN  IF IsLabel(valid, intent) THEN intent.base ELSE None

\* re.search(rf"\b{re.escape(lbl)}\b", lower) within one piece
WordMatch(lbl, t) ==
    \/ t.t = "word" /\ ~t.glue /\ t.v = Str(lbl, FALSE, FALSE)
    \/ t.t = "pair" /\ Strip(t.k) = Str(lbl, FALSE, FALSE)
    \/ t.t = "pair" /\ Strip(t.v) = Str(lbl, FALSE, FALSE)

HasWord(lbl, s) == \E i \in DOMAIN s : WordMatch(lbl, s[i])

\* Stage C returning the first label found, get_stats included
StageC_first(valid, s) ==
    LET lower == LowerText(s)
        found == SelectSeq(valid, LAMBDA lbl : HasWord(lbl, lower))
    IN  IF found = <<>> THEN "get_stats" ELSE found[1]

\* Stage C: the labels found in the lowercased text, in label-list order
StageC(valid, s) ==
    LET lower == LowerText(s)
        found == SelectSeq(valid, LAMBDA lbl : HasWord(lbl, lower))
        non_default == SelectSeq(found, LAMBDA lbl : lbl # "get_stats")
    IN  IF found = <<>> THEN "get_stats"
        ELSE IF non_default # <<>> THEN non_default[1] ELSE "get_stats"

\* the parser with Stage B tried before Stage A
ParseLLM_BFirst(valid, raw) ==
    IF StageB(valid, raw) # None THEN StageB(valid, raw)
    ELSE IF StageA(valid, raw) # None THEN StageA(valid, raw)
    ELSE StageC(valid, raw)

\* IntentClassifierLLM._parse_llm_json_or_label
ParseLLM(valid, raw) ==
    IF StageA(valid, raw) # None THEN StageA(valid, raw)
    ELSE IF StageB(valid, raw) # None THEN StageB(valid, raw)
    ELSE StageC(valid, raw)

-----------------------------------------------------------------------------
(* Inputs of the cache operations.                                         *)

KeyNames == <<"q1", "q2", "q3", "q4", "q5", "q6">>

\* one key more than the largest cache, so that a full cache meets a new key
CacheKeys == {Str(KeyNames[i], FALSE, FALSE) : i \in 1..(MaxCacheSize + 1)}

CacheValues == {"get_stats", "compare"}

\* the record kept of the last operation
\* (prev: the cache operation before it, as <<op, key, ret>>)
\* (svc: what the service call did: "none" when none was made, else
\* "returned" or "raised")
OpAfter(prev, o, k, r, x, c, rem) ==
    [op |-> o, key |-> k, ret |-> r, raised |-> x, svc |-> c, removed |-> rem,
     prev |-> prev]

NoPrev == <<"init", EmptyStr, None>>

\* an operation of the cache, and one of the classifier
CacheOp(o, k, r, x, rem) ==
    OpAfter(<<last.op, last.key, last.ret>>, o, k, r, x, "none", rem)

Op(o, k, r, x, c, rem) == OpAfter(NoPrev, o, k, r, x, c, rem)

NoOp ==
    [op |-> "init", key |-> EmptyStr, ret |-> None, raised |-> FALSE,
     svc |-> "none", removed |-> {}, prev |-> NoPrev]

\* history: k was just used (or nothing was, for k = EmptyStr); keys that
\* are not in the cache c2 carry no time
Touch(c2, k) ==
    [x \in CacheKeys |->
        IF x \notin KeysOf(c2) THEN 0
        ELSE IF x = k THEN clock + 1
        ELSE lastUse[x]]

IdleParser == txt = <<>> /\ parsed = ""

IdleRouting == route_in = <<>> /\ route_out = ""

IdleResolver ==
    /\ data_dir = <<>>
    /\ handler = "none"
    /\ games = <<>>
    /\ events = <<>>
    /\ players = <<>>
    /\ query_result = <<>>

IdleExtractor == ner_in = <<>> /\ ner_out = <<>>

IdleClassifier ==
    /\ valid_intents = <<>>
    /\ enable_caching = TRUE
    /\ cache_hits = 0
    /\ cache_misses = 0

-----------------------------------------------------------------------------
(* SpecLRU: any sequence of get, put and clear on one LRUCache.            *)

InitLRU ==
    /\ max_size \in 0..MaxCacheSize
    /\ cache = <<>>
    /\ last = NoOp
    /\ lastUse = [x \in CacheKeys |-> 0]
    /\ clock = 0
    /\ IdleClassifier
    /\ IdleParser
    /\ IdleRouting
    /\ IdleResolver
    /\ IdleExtractor

Get(k) ==
    /\ clock < MaxOps
    /\ LET r == LRU_get(cache, k) IN
        /\ cache' = r.cache
        /\ last' = CacheOp("get", k, r.ret, FALSE, KeysOf(cache) \ KeysOf(r.cache))
        /\ lastUse' = Touch(r.cache, IF r.ret = None THEN EmptyStr ELSE k)
        /\ clock' = IF r.ret = None THEN clock ELSE clock + 1
    /\ UNCHANGED <<valid_intents, enable_caching, max_size, cache_hits,
                   cache_misses, txt, parsed, route_in, route_out>>
    /\ UNCHANGED dataVars

Put(k, v) ==
    /\ clock < MaxOps
    /\ LET r == LRU_put(cache, max_size, k, v) IN
        /\ cache' = r.cache
        /\ last' = CacheOp("put", k, None, r.raised, KeysOf(cache) \ KeysOf(r.cache))
        /\ lastUse' = Touch(r.cache, IF r.raised THEN EmptyStr ELSE k)
        /\ clock' = IF r.raised THEN clock ELSE clock + 1
    /\ UNCHANGED <<valid_intents, enable_caching, max_size, cache_hits,
                   cache_misses, txt, parsed, route_in, route_out>>
    /\ UNCHANGED dataVars

Clear ==
    /\ cache' = LRU_clear(cache)
    /\ last' = CacheOp("clear", EmptyStr, None, FALSE, KeysOf(cache))
    /\ lastUse' = Touch(<<>>, EmptyStr)
    /\ UNCHANGED clock
    /\ UNCHANGED <<valid_intents, enable_caching, max_size, cache_hits,
                   cache_misses, txt, parsed, route_in, route_out>>
    /\ UNCHANGED dataVars

NextLRU ==
    \/ \E k \in CacheKeys : Get(k)
    \/ \E k \in CacheKeys, v \in CacheValues : Put(k, v)
    \/ Clear

SpecLRU == InitLRU /\ [][NextLRU]_vars

-----------------------------------------------------------------------------
(* SpecParser: _parse_llm_json_or_label applied to every text of at most   *)
(* MaxTextLen pieces, under each configured label list.                    *)

\* a configured label list without get_stats, in another order
CustomIntents == <<"get_result", "compare">>

IntentLists == {DefaultIntents, CustomIntents}

KeyIntent == Str("intent", FALSE, FALSE)

Alphabet ==
    { LBrace, RBrace,
      Pair(KeyIntent, Str("compare", FALSE, FALSE)),
      Pair(Str("intent", TRUE, FALSE), Str("get_result", FALSE, FALSE)),
      Pair(KeyIntent, Str("get_stats", TRUE, TRUE)),
      Pair(KeyIntent, Str("bogus", FALSE, FALSE)),
      Word(Str("get_result", FALSE, FALSE)),
      Word(Str("compare", FALSE, FALSE)),
      Word(Str("get_stats", TRUE, FALSE)),
      Glued(Str("get_roster", FALSE, FALSE)) }

Texts == UNION {[1..n -> Alphabet] : n \in 0..MaxTextLen}

InitParser ==
    /\ valid_intents \in IntentLists
    /\ txt \in Texts
    /\ parsed = ""
    /\ enable_caching = TRUE
    /\ max_size = 0
    /\ cache = <<>>
    /\ cache_hits = 0
    /\ cache_misses = 0
    /\ last = NoOp
    /\ lastUse = [x \in CacheKeys |-> 0]
    /\ clock = 0
    /\ IdleRouting
    /\ IdleResolver
    /\ IdleExtractor

Parse ==
    /\ parsed = ""
    /\ parsed' = ParseLLM(valid_intents, txt)
    /\ UNCHANGED <<valid_intents, enable_caching, max_size, cache, cache_hits,
                   cache_misses, last, lastUse, clock, txt, route_in, route_out>>
    /\ UNCHANGED dataVars

NextParser == Parse

SpecParser == InitParser /\ [][NextParser]_vars

-----------------------------------------------------------------------------
(* Spec: classify and clear_cache on one IntentClassifierLLM.              *)

\* the queries: None, empty, whitespace only, and each text as typed in
\* lower case and in upper case with surrounding blanks
Queries ==
    {NoneStr, EmptyStr, Str("", FALSE, TRUE)}
    \cup {Str(k.base, FALSE, FALSE) : k \in CacheKeys}
    \cup {Str(k.base, TRUE, TRUE) : k \in CacheKeys}

\* LLMClient.chat's error sentinel "[LLMClient] ERROR"
Sentinel == <<Word(Str("[llmclient]", TRUE, FALSE)), Word(Str("error", TRUE, FALSE))>>

\* what self.client.chat does: it raises, or it returns a text
ChatOutcomes ==
    {[raised |-> TRUE, raw |-> <<>>]}
    \cup {[raised |-> FALSE, raw |-> r] :
            r \in { <<>>,
                    Sentinel,
                    <<LBrace, Pair(KeyIntent, Str("compare", FALSE, FALSE)), RBrace>>,
                    <<Word(Str("get_result", FALSE, FALSE))>>,
                    <<Word(Str("zzz", FALSE, FALSE))>> }}

SvcOf(outcome) == IF outcome.raised THEN "raised" ELSE "returned"

\* IntentClassifierLLM._classify_with_llm: an exception of the call is
\* caught and get_stats returned
ClassifyWithLLM(valid, outcome) ==
    IF outcome.raised THEN "get_stats" ELSE ParseLLM(valid, outcome.raw)

\* the cache key without lowercasing
NormKey_cased(q) == q

\* norm = q.lower()
NormKey(q) == Lower(q)

Init ==
    /\ valid_intents \in IntentLists
    /\ enable_caching \in BOOLEAN
    /\ max_size \in 0..MaxCacheSize
    /\ cache = <<>>
    /\ cache_hits = 0
    /\ cache_misses = 0
    /\ last = NoOp
    /\ lastUse = [x \in CacheKeys |-> 0]
    /\ clock = 0
    /\ IdleParser
    /\ IdleRouting
    /\ IdleResolver
    /\ IdleExtractor

\* classify on a query that is empty once trimmed: line 94
ClassifyEmpty(query) ==
    /\ ~Truthy(Strip(OrEmpty(query)))
    /\ last' = Op("classify", query, "get_stats", FALSE, "none", {})
    /\ UNCHANGED <<cache, cache_hits, cache_misses>>

\* classify answered from the cache and counted as a miss
ClassifyHit_countsMiss(query) ==
    LET q == Strip(OrEmpty(query))
        norm == NormKey(q)
        g == LRU_get(cache, norm)
    IN  /\ Truthy(q)
        /\ enable_caching
        /\ g.ret # None
        /\ cache' = g.cache
        /\ cache_misses' = cache_misses + 1
        /\ UNCHANGED cache_hits
        /\ last' = Op("classify", query, g.ret, FALSE, "none", {})

\* classify answered from the cache: lines 100-106
ClassifyHit(query) ==
    LET q == Strip(OrEmpty(query))
        norm == NormKey(q)
        g == LRU_get(cache, norm)
    IN  /\ Truthy(q)
        /\ enable_caching
        /\ g.ret # None
        /\ cache' = g.cache
        /\ cache_hits' = cache_hits + 1
        /\ UNCHANGED cache_misses
        /\ last' = Op("classify", query, g.ret, FALSE, "none", {})

\* classify calling the service and keeping the default label out of the
\* cache
ClassifyMiss_noStore(query, outcome) ==
    LET q == Strip(OrEmpty(query))
        norm == NormKey(q)
        g == LRU_get(cache, norm)
        intent == ClassifyWithLLM(valid_intents, outcome)
        p == LRU_put(g.cache, max_size, norm, intent)
        stores == enable_caching /\ intent # "get_stats"
    IN  /\ Truthy(q)
        /\ enable_caching => g.ret = None
        /\ cache_misses' = IF enable_caching THEN cache_misses + 1 ELSE cache_misses
        /\ UNCHANGED cache_hits
        /\ cache' = IF stores THEN p.cache ELSE cache
        /\ last' = IF stores /\ p.raised
                   THEN Op("classify", query, None, TRUE, SvcOf(outcome), {})
                   ELSE Op("classify", query, intent, FALSE, SvcOf(outcome),
                           KeysOf(cache) \ KeysOf(cache'))

\* classify calling the service: lines 107-122
ClassifyMiss(query, outcome) ==
    LET q == Strip(OrEmpty(query))
        norm == NormKey(q)
        g == LRU_get(cache, norm)
        intent == ClassifyWithLLM(valid_intents, outcome)
        p == LRU_put(g.cache, max_size, norm, intent)
    IN  /\ Truthy(q)
        /\ enable_caching => g.ret = None
        /\ cache_misses' = IF enable_caching THEN cache_misses + 1 ELSE cache_misses
        /\ UNCHANGED cache_hits
        /\ cache' = IF enable_caching THEN p.cache ELSE cache
        /\ last' = IF enable_caching /\ p.raised
                   THEN Op("classify", query, None, TRUE, SvcOf(outcome), {})
                   ELSE Op("classify", query, intent, FALSE, SvcOf(outcome),
                           KeysOf(cache) \ KeysOf(cache'))

\* IntentClassifierLLM.classify
Classify(query, outcome) ==
    /\ cache_hits + cache_misses < MaxClassify
    /\ \/ ClassifyEmpty(query)
       \/ ClassifyHit(query)
       \/ ClassifyMiss(query, outcome)
    /\ UNCHANGED <<valid_intents, enable_caching, max_size, lastUse, clock,
                   txt, parsed, route_in, route_out>>
    /\ UNCHANGED dataVars

\* IntentClassifierLLM.clear_cache
ClearCache ==
    /\ IF enable_caching
       THEN /\ cache' = LRU_clear(cache)
            /\ cache_hits' = 0
            /\ cache_misses' = 0
       ELSE UNCHANGED <<cache, cache_hits, cache_misses>>
    /\ last' = Op("clear_cache", EmptyStr, None, FALSE, "none", KeysOf(cache) \ KeysOf(cache'))
    /\ UNCHANGED <<valid_intents, enable_caching, max_size, lastUse, clock,
                   txt, parsed, route_in, route_out>>
    /\ UNCHANGED dataVars

Next ==
    \/ \E query \in Queries, outcome \in ChatOutcomes : Classify(query, outcome)
    \/ ClearCache

Spec == Init /\ [][Next]_vars

-----------------------------------------------------------------------------
(* classify_query (routing_classifier.py).  A response is the sequence of  *)
(* its whitespace-delimited tokens; a token is a core word with at most    *)
(* one punctuation character before and after it ("" for none), and up     *)
(* says that it holds upper-case letters.                                  *)

RTok(pre, core, post, up) == [pre |-> pre, core |-> core, post |-> post, up |-> up]

EmptyTok == RTok("", "", "", FALSE)

\* raw is None
NoneRaw == <<RTok("", "<None>", "", FALSE)>>

\* the characters of first.strip(".,:;!?'\"-_/\\()[]{}") that the model uses
StripSet == {".", ",", ":", ";", "!", "?", "-", "(", ")", "[", "]"}

\* (raw or "").strip().lower()
ResponseOf(raw) ==
    IF raw = NoneRaw THEN <<>>
    ELSE [i \in DOMAIN raw |-> [raw[i] EXCEPT !.up = FALSE]]

\* response.split()[-1]: the last token instead of the first
FirstToken_last(response) ==
    IF response # <<>> THEN response[Len(response)] ELSE EmptyTok

\* response.split()[0] if response else ""
FirstToken(response) ==
    IF response # <<>> THEN response[1] ELSE EmptyTok

\* a strip that removes every character around the word, whatever it is
StripPunct_all(t) == [t EXCEPT !.pre = "", !.post = ""]

\* first.strip(...): a token made of punctuation only strips to ""
StripPunct(t) ==
    [t EXCEPT !.pre = IF t.pre \in StripSet THEN "" ELSE t.pre,
              !.post = IF t.post \in StripSet THEN "" ELSE t.post]

\* first in {...}: the token is exactly one of the words
IsWord(t, words) == t.pre = "" /\ t.post = "" /\ ~t.up /\ t.core \in words

\* first.isdigit()
IsDigit(t) == IsWord(t, {"7"})

\* "error" in response, "llmclient" in response: of the words of the
\* model, only the word itself holds the substring
HasSubstring(response, sub) ==
    \E i \in DOMAIN response :
        /\ ~response[i].up
        /\ response[i].core = sub

\* lines 40-57: normalized_response
NormalizeResponse(raw) ==
    LET response == ResponseOf(raw)
        first == StripPunct(FirstToken(response))
    IN  IF IsWord(first, {"simple", "s"}) THEN "simple"
        ELSE IF IsWord(first, {"complex", "c"}) THEN "complex"
        ELSE IF IsDigit(first) THEN "simple"
        ELSE IF HasSubstring(response, "error") \/ HasSubstring(response, "llmclient")
             THEN "simple"
        ELSE IF first.pre = "" /\ first.post = "" THEN first.core
        ELSE "<other>"

\* the result returned as it is, without the final test
FinalRoute_unchecked(n) == n

\* lines 63-69: anything but the two labels defaults to simple
FinalRoute(n) == IF n \notin {"simple", "complex"} THEN "simple" ELSE n

\* the body of the try block: exc when load_prompt raises, when an example
\* lacks a key, or when client.chat raises
RouteBody(in) ==
    IF in.load \in {"raise", "bad_example"} \/ in.chat = "raise"
    THEN [exc |-> TRUE, val |-> ""]
    ELSE [exc |-> FALSE, val |-> FinalRoute(NormalizeResponse(in.raw))]

\* classify_query: any exception of the body gives simple
ClassifyQuery(in) ==
    IF RouteBody(in).exc THEN "simple" ELSE RouteBody(in).val

-----------------------------------------------------------------------------
(* SpecRouting: classify_query on every response of at most MaxRespTokens  *)
(* tokens, and on every failure of the prompt load and of the call.        *)

RouteAlphabet ==
    { RTok("", "simple", "", FALSE),
      RTok("", "simple", ".", TRUE),
      RTok("", "s", "", FALSE),
      RTok("", "complex", "", FALSE),
      RTok("(", "c", ")", TRUE),
      RTok("*", "complex", "*", FALSE),
      RTok("", "7", "", FALSE),
      RTok("[", "llmclient", "]", TRUE),
      RTok("", "error", "", TRUE),
      RTok("", "maybe", "", FALSE),
      RTok("-", "", "-", FALSE) }

RouteTexts == UNION {[1..n -> RouteAlphabet] : n \in 0..MaxRespTokens}

\* LLMClient.chat's error sentinel "[LLMClient] ERROR", as a response
RouteSentinel == <<RTok("[", "llmclient", "]", TRUE), RTok("", "error", "", TRUE)>>

RouteInputs ==
    [load : {"ok", "no_keys", "bad_example", "raise"},
     chat : {"return"},
     raw : RouteTexts \cup {NoneRaw}]
    \cup [load : {"ok", "no_keys"}, chat : {"raise"}, raw : {<<>>}]

InitRouting ==
    /\ route_in \in RouteInputs
    /\ route_out = ""
    /\ max_size = 0
    /\ cache = <<>>
    /\ last = NoOp
    /\ lastUse = [x \in CacheKeys |-> 0]
    /\ clock = 0
    /\ IdleClassifier
    /\ IdleParser
    /\ IdleResolver
    /\ IdleExtractor

Route ==
    /\ route_out = ""
    /\ route_out' = ClassifyQuery(route_in)
    /\ UNCHANGED <<valid_intents, enable_caching, max_size, cache, cache_hits,
                   cache_misses, last, lastUse, clock, txt, parsed, route_in>>
    /\ UNCHANGED dataVars

NextRouting == Route

SpecRouting == InitRouting /\ [][NextRouting]_vars

-----------------------------------------------------------------------------
(* Claims about classify_query, checked under SpecRouting.                 *)

\* the service returned a response to classify_query
GotResponse ==
    /\ route_out # ""
    /\ route_in.load \in {"ok", "no_keys"}
    /\ route_in.chat = "return"
    /\ route_in.raw # NoneRaw

\* C9: classify_query never raises and returns exactly simple or complex,
\* for every response (empty and None included) and every failure of the
\* service call or of the prompt load.
C9_AlwaysSimpleOrComplex ==
    route_out # "" => route_out \in {"simple", "complex"}

\* C9 witness: a response that is no label and names no error, which the
\* final test turns into simple.
C9_Witness ==
    /\ GotResponse
    /\ route_out = "simple"
    /\ Len(route_in.raw) = 1
    /\ route_in.raw[1].core = "maybe"

\* the response contains "error" or the sentinel's name, in any letter case
NamesError ==
    \E i \in DOMAIN route_in.raw :
        route_in.raw[i].core \in {"error", "llmclient"}

\* the first token, lowercased and without the punctuation around it, is
\* complex or c
FirstIsComplex ==
    /\ route_in.raw # <<>>
    /\ route_in.raw[1].core \in {"complex", "c"}
    /\ route_in.raw[1].pre \in StripSet \cup {""}
    /\ route_in.raw[1].post \in StripSet \cup {""}

FirstIsComplexBare ==
    /\ route_in.raw # <<>>
    /\ route_in.raw[1].core \in {"complex", "c"}

-----------------------------------------------------------------------------
(* Claims about IntentClassifierLLM.classify, checked under Spec.          *)

\* the trimmed, lowercased text of a query (None counts as empty)
TextOf(q) == IF q = NoneStr THEN "" ELSE q.base

Called(l) == l.svc # "none"

\* two classify calls in a row on queries with the same trimmed, lowercased
\* text
SameTextTwice ==
    /\ last.op = "classify"
    /\ last'.op = "classify"
    /\ TextOf(last.key) = TextOf(last'.key)

\* the second call repeats the first label from the cache
AnsweredFromCache ==
    /\ ~last'.raised
    /\ last'.ret = last.ret
    /\ ~Called(last')
    /\ cache_hits' = cache_hits + 1

\* C3 as stated: for any two queries with the same trimmed, lowercased text
\* submitted one after the other, the second call returns the first label,
\* calls no service and adds one to the hit counter.
C3_Original == [][SameTextTwice => AnsweredFromCache]_vars

\* C3 amended: the same, for a text that is not empty, with caching enabled
\* and a first call that returned a label (max_cache_size >= 1).
C3_SecondCallHitsCache ==
    [][(/\ SameTextTwice
        /\ TextOf(last.key) # ""
        /\ enable_caching
        /\ ~last.raised) => AnsweredFromCache]_vars

\* C3 witness: a miss on a query, then a hit on the same text typed in
\* upper case with surrounding blanks, answered compare from the cache.
C3_Witness ==
    /\ last.op = "classify"
    /\ ~Called(last)
    /\ last.key.up /\ last.key.pad
    /\ last.ret = "compare"
    /\ cache_hits = 1
    /\ cache_misses = 1
    /\ Len(cache) = 1

\* C4 (the claim; the code violates it): when the service call made by
\* classify raises, classify returns get_stats and leaves the cache as it
\* was, storing no entry for the query.
C4_NoCachingOnServiceError ==
    [][(last'.op = "classify" /\ last'.svc = "raised" /\ ~last'.raised) =>
          (/\ last'.ret = "get_stats"
           /\ cache' = cache)]_vars

\* C5: classify on a None, empty or whitespace-only query returns get_stats,
\* calls no service, and leaves the cache, its order and both counters as
\* they were.
C5_EmptyQueryTouchesNothing ==
    [][(last'.op = "classify" /\ TextOf(last'.key) = "") =>
          (/\ ~last'.raised
           /\ last'.ret = "get_stats"
           /\ ~Called(last')
           /\ cache' = cache
           /\ cache_hits' = cache_hits
           /\ cache_misses' = cache_misses)]_vars

\* C5 witness: a whitespace-only query answered get_stats by a classifier
\* whose cache holds entries and whose counters are not zero.
C5_Witness ==
    /\ last.op = "classify"
    /\ last.key = Str("", FALSE, TRUE)
    /\ last.ret = "get_stats"
    /\ Len(cache) >= 1
    /\ cache_hits >= 1
    /\ cache_misses >= 1

\* classify returns a label of the list or the default get_stats, and it
\* raises only with caching enabled and max_cache_size = 0 (the put on the
\* empty cache)
ClassifyReturnsLabelOrDefault ==
    last.op = "classify" =>
        IF last.raised
        THEN enable_caching /\ max_size = 0 /\ Called(last)
        ELSE last.ret \in Range(valid_intents) \cup {"get_stats"}

-----------------------------------------------------------------------------
(* Claims about _parse_llm_json_or_label, checked under SpecParser.        *)

Labels == Range(valid_intents)

IsFirstSpan(i, j) ==
    /\ i < j
    /\ txt[i].t = "lb"
    /\ txt[j].t = "rb"
    /\ \A x \in 1..(i - 1) : txt[x].t # "lb"
    /\ \A y \in (i + 1)..(j - 1) : txt[y].t # "rb"

\* the span is an object {"intent": "<value>"} whose value, lowercased and
\* trimmed, is the label l
SpanHasLabel(i, j, l) ==
    /\ j = i + 2
    /\ txt[i + 1].t = "pair"
    /\ txt[i + 1].k = Str("intent", FALSE, FALSE)
    /\ txt[i + 1].v.base = l

\* the label Stage A is claimed to return
FirstSpanLabels ==
    {l \in Labels : \E i, j \in DOMAIN txt : IsFirstSpan(i, j) /\ SpanHasLabel(i, j, l)}

\* piece i is an "intent": "<value>" substring, in any letter case
IsIntentSubstring(i) ==
    /\ txt[i].t = "pair"
    /\ txt[i].k.base = "intent"
    /\ ~txt[i].k.pad
    /\ txt[i].v.base # ""

\* the label Stage B is claimed to return
FirstSubstringLabels ==
    {l \in Labels : \E i \in DOMAIN txt :
        /\ IsIntentSubstring(i)
        /\ \A x \in 1..(i - 1) : ~IsIntentSubstring(x)
        /\ txt[i].v.base = l}

\* label l occurs as a whole word in the lowercased text
OccursAsWord(l) ==
    \E i \in DOMAIN txt :
        \/ txt[i].t = "word" /\ ~txt[i].glue /\ txt[i].v.base = l
        \/ txt[i].t = "pair" /\ (txt[i].k.base = l \/ txt[i].v.base = l)

\* F: the valid labels that occur as whole words
FoundLabels == {l \in Labels : OccursAsWord(l)}

\* the result claimed for Stage C
StageCClaimed ==
    LET F == FoundLabels IN
    IF F = {} THEN "get_stats"
    ELSE IF Cardinality(F) = 1 THEN CHOOSE l \in F : TRUE
    ELSE valid_intents[SetMin({i \in DOMAIN valid_intents :
                                   /\ valid_intents[i] \in F
                                   /\ valid_intents[i] # "get_stats"})]

\* C7: the stages apply in a fixed order: a valid label in the first brace
\* span is the result whatever else the text holds; failing that, a valid
\* label in the first "intent": "<value>" substring is; the whole-word scan
\* decides only when both fail.
C7_StagesInOrder ==
    parsed # "" =>
        LET a == FirstSpanLabels
            b == FirstSubstringLabels
        IN  IF a # {} THEN a = {parsed}
            ELSE IF b # {} THEN b = {parsed}
            ELSE parsed = StageC(valid_intents, txt)

\* C7 witness: the first brace span holds a valid label, an earlier
\* "intent" substring holds another valid label, and the span's label is
\* the result.
C7_Witness ==
    /\ FirstSpanLabels = {parsed}
    /\ FirstSubstringLabels # {}
    /\ FirstSubstringLabels # {parsed}
    /\ StageC(valid_intents, txt) # parsed

\* C8: in Stage C, with F the valid labels occurring as whole words in the
\* lowercased text: F empty gives get_stats, one label gives that label,
\* several give the first label of F in list order that is not get_stats.
C8_StageCChoice ==
    parsed # "" =>
        LET claimed == StageCClaimed IN
        /\ StageC(valid_intents, txt) = claimed
        /\ (FirstSpanLabels = {} /\ FirstSubstringLabels = {}) => parsed = claimed

\* C8 witness: both earlier stages failed, get_stats and two other labels
\* occur as words, and the result is the first of these in list order,
\* which comes second in the text.
C8_Witness ==
    /\ parsed = "compare"
    /\ FirstSpanLabels = {}
    /\ FirstSubstringLabels = {}
    /\ FoundLabels = {"get_stats", "compare", "get_result"}
    /\ \E i, j \in DOMAIN txt :
          i < j /\ txt[i].v.base = "get_result" /\ txt[j].v.base = "compare"

-----------------------------------------------------------------------------
(* Claims about the LRUCache, checked under SpecLRU.                       *)

\* C1: after any sequence of get, put and clear the cache never holds more
\* than max_size entries (and, being a dictionary, no key twice).
C1_SizeNeverExceedsMax ==
    /\ Len(cache) <= max_size
    /\ Cardinality(KeysOf(cache)) = Len(cache)

\* C1 witness: a put of a new key into a full cache has just evicted, and
\* the cache is still exactly full.
C1_Witness ==
    /\ last.op = "put"
    /\ last.removed # {}
    /\ max_size >= 2
    /\ Len(cache) = max_size

\* the least recently used key of a non-empty cache, by the history
Oldest(c) ==
    CHOOSE k \in KeysOf(c) : \A x \in KeysOf(c) : lastUse[k] <= lastUse[x]

\* the keys a step removes
Removed == KeysOf(cache) \ KeysOf(cache')

\* the entries other than k keep their values over a step
OthersKept(k) ==
    \A x \in KeysOf(cache') \ {k} :
        HasKey(cache, x) /\ ValueOf(cache', x) = ValueOf(cache, x)

\* a step removes an entry only if it is clear, or a put of a new key into a
\* cache holding max_size entries; that put removes exactly the entry whose
\* last use is the oldest
C2_RemovalRule ==
    Removed # {} =>
        \/ last'.op = "clear"
        \/ /\ last'.op = "put"
           /\ ~HasKey(cache, last'.key)
           /\ Len(cache) = max_size
           /\ Removed = {Oldest(cache)}
           /\ Len(cache') = Len(cache)

\* a get hit or a put on an existing key removes nothing and makes the key
\* the most recently used (the last to be evicted)
C2_PromotionRule ==
    (last'.op \in {"get", "put"} /\ HasKey(cache, last'.key)) =>
        /\ Removed = {}
        /\ KeysOf(cache') = KeysOf(cache)
        /\ cache'[Len(cache')].key = last'.key
        /\ OthersKept(last'.key)

\* the step after a get hit on key k, when it is a put that evicts
EvictsAfterGetHit ==
    /\ last.op = "get"
    /\ last.ret # None
    /\ last'.op = "put"
    /\ Removed # {}

\* C2 as stated: the removal and promotion rules, and a key touched by get
\* is not the one the next insertion evicts.
C2_Original ==
    [][/\ C2_RemovalRule
       /\ C2_PromotionRule
       /\ (EvictsAfterGetHit => last.key \notin Removed)]_vars

\* C2 amended: the removal and promotion rules hold as stated; a key touched
\* by get is not the one the next insertion evicts provided the cache holds
\* two or more entries.
C2_LeastRecentlyUsedEvicted ==
    [][/\ C2_RemovalRule
       /\ C2_PromotionRule
       /\ (EvictsAfterGetHit /\ Len(cache) >= 2 => last.key \notin Removed)]_vars

\* C2 witness: with two or more entries cached, a get hit on a key was
\* followed by a put of a new key that evicted another key, and the key
\* that was hit is still cached.
C2_Witness ==
    /\ last.op = "put"
    /\ Cardinality(last.removed) = 1
    /\ Len(cache) >= 2
    /\ last.prev[1] = "get"
    /\ last.prev[3] # None
    /\ HasKey(cache, last.prev[2])
    /\ last.prev[2] # last.key


-----------------------------------------------------------------------------
(* SimpleRugbyDataHandler (data_handler.py).  A name (team name, player    *)
(* name, event type, entity string) is the sequence of its lowercased      *)
(* words, and up says that it holds upper-case letters; "a in b" is        *)
(* modelled at the level of words.  Identifiers are positive integers, 0   *)
(* stands for a missing or null identifier (both are falsy in Python).     *)
(* A computation that may raise returns a record whose err field is the    *)
(* exception's message ("" when it returns normally).                      *)

Name(words, up) == [words |-> words, up |-> up]

\* None where a name is expected (home_team.get('name') of a nameless team)
NoneName == Name(<<"<None>">>, FALSE)

\* n.lower()
LowerName(n) == [n EXCEPT !.up = FALSE]

IsInfix(a, b) ==
    \E i \in 0..(Len(b) - Len(a)) : \A j \in 1..Len(a) : b[i + j] = a[j]

\* a in b, for two strings
Contains(a, b) == a.up = b.up /\ IsInfix(a.words, b.words)

\* a.lower() in b.lower(), for two strings
NameMatches(a, b) == Contains(LowerName(a), LowerName(b))

\* f"{first} {last}"
FullName(first_name, last_name) ==
    Name(first_name.words \o last_name.words, first_name.up \/ last_name.up)

\* the numeric strings of the model and int() of them
DigitValue == ("7" :> 7) @@ ("10" :> 10) @@ ("99" :> 99)

\* player_ref.isdigit()
IsDigitRef(ref) == Len(ref.words) = 1 /\ ref.words[1] \in DOMAIN DigitValue

\* int(player_ref)
IntOfRef(ref) == DigitValue[ref.words[1]]

\* str(e) of the exceptions the handlers can meet
AttrErrLower == "'NoneType' object has no attribute 'lower'"
AttrErrGet == "'NoneType' object has no attribute 'get'"
OverflowErr == "cannot convert float infinity to integer"

\* the values of a grade field: missing or null, an integer, a numeric
\* string, a non-numeric string, the float Infinity (which json.load reads)
NoGrade == [k |-> "none", n |-> 0]
IntGrade(n) == [k |-> "int", n |-> n]
StrGrade(n) == [k |-> "str", n |-> n]
BadGrade == [k |-> "bad", n |-> 0]
InfGrade == [k |-> "inf", n |-> 0]

\* the values of an event's metadata field: missing, null, or a mapping
NoMetadata == [kind |-> "absent", grade |-> NoGrade]
NullMetadata == [kind |-> "null", grade |-> NoGrade]
Metadata(g) == [kind |-> "dict", grade |-> g]

Event(type, team_id, player_id, metadata, grade) ==
    [type |-> type, team_id |-> team_id, player_id |-> player_id,
     metadata |-> metadata, grade |-> grade]

\* the outcome of _extract_grade: a grade (some), None, or an exception
GradeIs(n) == [err |-> "", some |-> TRUE, n |-> n]
GradeNone == [err |-> "", some |-> FALSE, n |-> 0]
GradeRaises(e) == [err |-> e, some |-> FALSE, n |-> 0]

\* try: return int(grade) / except (ValueError, TypeError): pass
IntOf(g) ==
    IF g.k \in {"int", "str"} THEN GradeIs(g.n)
    ELSE IF g.k = "inf" THEN GradeRaises(OverflowErr)
    ELSE GradeNone

\* _extract_grade
ExtractGrade(event) ==
    IF event.metadata.kind = "null" THEN GradeRaises(AttrErrGet)
    ELSE LET nested == IntOf(event.metadata.grade)
             top == IntOf(event.grade)
         IN  IF nested.err # "" \/ nested.some THEN nested
             ELSE top

\* the message of the first exception of a sequence of outcomes, "" if none
FirstErr(rs) ==
    IF \E i \in DOMAIN rs : rs[i].err # ""
    THEN rs[CHOOSE i \in DOMAIN rs :
                /\ rs[i].err # ""
                /\ \A j \in 1..(i - 1) : rs[j].err = ""].err
    ELSE ""

\* any(event_type.lower() in event.get('type', '').lower() ...)
TypeMatches(event_types, event) ==
    \E i \in DOMAIN event_types : NameMatches(event_types[i], event.type)

\* grade_stats with a minimum that stays at the first grade
AddGrade_firstMin(gs, t, n) ==
    IF t \in DOMAIN gs
    THEN [gs EXCEPT ![t] = [grades |-> Append(@.grades, n),
                            count |-> @.count + 1,
                            sum |-> @.sum + n,
                            avg |-> <<@.sum + n, @.count + 1>>,
                            min |-> @.min,
                            max |-> IF n > @.max THEN n ELSE @.max]]
    ELSE gs @@ (t :> [grades |-> <<n>>, count |-> 1, sum |-> n, avg |-> <<n, 1>>,
                      min |-> n, max |-> n])

\* grade_stats after one more grade of an event of type t; avg is the
\* quotient sum / count, kept as the pair <<sum, count>>
AddGrade(gs, t, n) ==
    IF t \in DOMAIN gs
    THEN [gs EXCEPT ![t] = [grades |-> Append(@.grades, n),
                            count |-> @.count + 1,
                            sum |-> @.sum + n,
                            avg |-> <<@.sum + n, @.count + 1>>,
                            min |-> IF n < @.min THEN n ELSE @.min,
                            max |-> IF n > @.max THEN n ELSE @.max]]
    ELSE gs @@ (t :> [grades |-> <<n>>, count |-> 1, sum |-> n, avg |-> <<n, 1>>,
                      min |-> n, max |-> n])

\* event_counts after one more event of type t
AddCount(ec, t) ==
    IF t \in DOMAIN ec THEN [ec EXCEPT ![t] = @ + 1] ELSE ec @@ (t :> 1)

\* lines 494-528 and 550-584: the loop over the selected events
StatsLoop(evs) ==
    LET F[i \in 0..Len(evs)] ==
            IF i = 0 THEN [err |-> "", event_counts |-> <<>>, grade_stats |-> <<>>]
            ELSE IF F[i - 1].err # "" THEN F[i - 1]
            ELSE LET g == ExtractGrade(evs[i]) IN
                 [err |-> g.err,
                  event_counts |-> AddCount(F[i - 1].event_counts, evs[i].type),
                  grade_stats |-> IF g.some
                                  THEN AddGrade(F[i - 1].grade_stats, evs[i].type, g.n)
                                  ELSE F[i - 1].grade_stats]
    IN  F[Len(evs)]

\* the statistics of the selected events, filtered by event type if asked
EventStats(selected, event_types) ==
    LET ByType(e) == TypeMatches(event_types, e)
        kept == IF event_types # <<>> THEN SelectSeq(selected, ByType) ELSE selected
        acc == StatsLoop(kept)
    IN  [err |-> acc.err,
         total_events |-> Len(kept),
         event_counts |-> acc.event_counts,
         grade_stats |-> acc.grade_stats]

\* _get_player_event_stats(player_id, event_types)
PlayerEventStats(evs, player_id, event_types) ==
    LET Mine(e) == e.player_id = player_id
    IN  EventStats(SelectSeq(evs, Mine), event_types)

\* _get_team_event_stats(team_id, event_types)
TeamEventStats(evs, team_id, event_types) ==
    LET Ours(e) == e.team_id = team_id
    IN  EventStats(SelectSeq(evs, Ours), event_types)

\* a roster entry, a team and a game of a game file (country, weight and
\* height are copied like position and are left out)
RosterEntry(jersey_number, position, id, first_name, last_name) ==
    [jersey_number |-> jersey_number, roster_position |-> position,
     player |-> [id |-> id, first_name |-> first_name, last_name |-> last_name]]

Team(id, name, roster) == [id |-> id, name |-> name, roster |-> roster]

Game(id, home_team, away_team) ==
    [id |-> id, home_team |-> home_team, away_team |-> away_team]

\* lines 78-92 and 98-112: the player_info of one roster entry
PlayerInfo(game, team, team_type, entry) ==
    [game_id |-> game.id,
     team_id |-> team.id,
     team_name |-> team.name,
     team_type |-> team_type,
     jersey_number |-> entry.jersey_number,
     position |-> entry.roster_position,
     player_id |-> entry.player.id,
     first_name |-> entry.player.first_name,
     last_name |-> entry.player.last_name]

\* _extract_players_from_game: the home roster, then the away roster
ExtractPlayersFromGame(game) ==
    [i \in DOMAIN game.home_team.roster |->
        PlayerInfo(game, game.home_team, "home", game.home_team.roster[i])]
    \o
    [i \in DOMAIN game.away_team.roster |->
        PlayerInfo(game, game.away_team, "away", game.away_team.roster[i])]

\* the concatenation of a sequence of sequences
Flatten(ss) ==
    LET F[i \in 0..Len(ss)] == IF i = 0 THEN <<>> ELSE F[i - 1] \o ss[i]
    IN  F[Len(ss)]

\* the outcome of a search: a player, nothing, or an exception
Found(p) == [err |-> "", found |-> TRUE, player |-> <<p>>]
NotFound == [err |-> "", found |-> FALSE, player |-> <<>>]
SearchRaises(e) == [err |-> e, found |-> FALSE, player |-> <<>>]

\* team_name.lower() in player['team_name'].lower(), for some team_name
OnSomeTeam(teams, player) ==
    \E i \in DOMAIN teams : NameMatches(teams[i], player.team_name)

\* player_ref.lower() in full_name.lower() or ... in last_name.lower()
RefNamesPlayer(ref, player) ==
    \/ NameMatches(ref, FullName(player.first_name, player.last_name))
    \/ NameMatches(ref, player.last_name)

\* _find_player(player_ref, teams): the first hit in the order of players
FindPlayer(ps, ref, teams) ==
    LET Step(i) ==
            IF IsDigitRef(ref)
            THEN IF ps[i].jersey_number # IntOfRef(ref) THEN NotFound
                 ELSE IF teams = <<>> THEN Found(ps[i])
                 ELSE IF ps[i].team_name = NoneName THEN SearchRaises(AttrErrLower)
                 ELSE IF OnSomeTeam(teams, ps[i]) THEN Found(ps[i])
                 ELSE NotFound
            ELSE IF RefNamesPlayer(ref, ps[i]) THEN Found(ps[i]) ELSE NotFound
        Stops(i) == Step(i).found \/ Step(i).err # ""
    IN  IF \E i \in DOMAIN ps : Stops(i)
        THEN Step(CHOOSE i \in DOMAIN ps :
                    Stops(i) /\ \A j \in 1..(i - 1) : ~Stops(j))
        ELSE NotFound

\* [p for p in self.players if team_name.lower() in p['team_name'].lower()]
TeamPlayers(ps, team_name) ==
    LET OnTeam(p) == NameMatches(team_name, p.team_name)
    IN  IF \E i \in DOMAIN ps : ps[i].team_name = NoneName
        THEN [err |-> AttrErrLower, val |-> <<>>]
        ELSE [err |-> "", val |-> SelectSeq(ps, OnTeam)]

\* the entities argument: three of its lists (positions and time_reference
\* are read by no handler); isNone says that the argument is None
Entities(ps, ts, es) ==
    [players |-> ps, teams |-> ts, event_types |-> es, isNone |-> FALSE]

NoneEntities == [Entities(<<>>, <<>>, <<>>) EXCEPT !.isNone = TRUE]

QueryResult(intent, data, success, error) ==
    [intent |-> intent, data |-> data, success |-> success, error |-> error]

\* the outcome of a handler: the QueryResult it returns, or an exception
Returns(intent, data, message) ==
    [err |-> "",
     val |-> QueryResult(intent, data, Len(data) > 0,
                         IF data # <<>> THEN None ELSE message)]

HandlerRaises(e) == [err |-> e, val |-> QueryResult("", <<>>, FALSE, None)]

\* a search that takes a record once when some team string matches
FoundPlayers_once(ps, ref, teams) ==
    LET ByName(p) == RefNamesPlayer(ref, p)
        PerPlayer(i) ==
            IF ps[i].jersey_number # IntOfRef(ref) THEN [err |-> "", val |-> <<>>]
            ELSE IF teams = <<>> THEN [err |-> "", val |-> <<ps[i]>>]
            ELSE IF ps[i].team_name = NoneName THEN [err |-> AttrErrLower, val |-> <<>>]
            ELSE IF OnSomeTeam(teams, ps[i]) THEN [err |-> "", val |-> <<ps[i]>>]
            ELSE [err |-> "", val |-> <<>>]
        each == [i \in DOMAIN ps |-> PerPlayer(i)]
    IN  IF IsDigitRef(ref)
        THEN [err |-> FirstErr(each),
              val |-> Flatten([i \in DOMAIN ps |-> each[i].val])]
        ELSE [err |-> "", val |-> SelectSeq(ps, ByName)]

\* lines 166-187: found_players of one player reference
FoundPlayers(ps, ref, teams) ==
    LET ByName(p) == RefNamesPlayer(ref, p)
        Matching(p) ==
            LET Hit(t) == NameMatches(t, p.team_name)
            IN  SelectSeq(teams, Hit)
        PerPlayer(i) ==
            IF ps[i].jersey_number # IntOfRef(ref) THEN [err |-> "", val |-> <<>>]
            ELSE IF teams = <<>> THEN [err |-> "", val |-> <<ps[i]>>]
            ELSE IF ps[i].team_name = NoneName THEN [err |-> AttrErrLower, val |-> <<>>]
            ELSE [err |-> "", val |-> [k \in DOMAIN Matching(ps[i]) |-> ps[i]]]
        each == [i \in DOMAIN ps |-> PerPlayer(i)]
    IN  IF IsDigitRef(ref)
        THEN [err |-> FirstErr(each),
              val |-> Flatten([i \in DOMAIN ps |-> each[i].val])]
        ELSE [err |-> "", val |-> SelectSeq(ps, ByName)]

\* lines 192-201: a found player in the expected format
PlayerRecord(p) ==
    [player_id |-> p.player_id,
     name |-> FullName(p.first_name, p.last_name),
     jersey_number |-> p.jersey_number,
     position |-> p.position,
     team |-> p.team_name,
     team_type |-> p.team_type,
     game_id |-> p.game_id]

\* _handle_get_player_info
HandleGetPlayerInfo(ps, entities) ==
    LET found == [i \in DOMAIN entities.players |->
                    FoundPlayers(ps, entities.players[i], entities.teams)]
        all == Flatten([i \in DOMAIN found |-> found[i].val])
    IN  IF FirstErr(found) # "" THEN HandlerRaises(FirstErr(found))
        ELSE Returns("get_player_info",
                     [k \in DOMAIN all |-> PlayerRecord(all[k])],
                     "No matching players found")

\* lines 224-232: the player part of a statistics record
PlayerPart(p) ==
    [name |-> FullName(p.first_name, p.last_name),
     jersey_number |-> p.jersey_number,
     position |-> p.position,
     team |-> p.team_name,
     player_id |-> p.player_id]

\* lines 221-235: the statistics record of one player reference, if any
PlayerStatsOf(ps, evs, ref, teams, event_types) ==
    LET f == FindPlayer(ps, ref, teams)
        stats == PlayerEventStats(evs, f.player[1].player_id, event_types)
    IN  IF f.err # "" THEN [err |-> f.err, val |-> <<>>]
        ELSE IF ~f.found THEN [err |-> "", val |-> <<>>]
        ELSE IF stats.err # "" THEN [err |-> stats.err, val |-> <<>>]
        ELSE [err |-> "",
              val |-> <<[player |-> PlayerPart(f.player[1]),
                         statistics |-> [stats EXCEPT !.err = ""],
                         event_types |-> event_types]>>]

\* lines 240-248: the statistics record of one team reference, if any
TeamStatsOf(ps, evs, team_name, event_types) ==
    LET tp == TeamPlayers(ps, team_name)
        stats == TeamEventStats(evs, tp.val[1].team_id, event_types)
    IN  IF tp.err # "" THEN [err |-> tp.err, val |-> <<>>]
        ELSE IF tp.val = <<>> THEN [err |-> "", val |-> <<>>]
        ELSE IF stats.err # "" THEN [err |-> stats.err, val |-> <<>>]
        ELSE [err |-> "",
              val |-> <<[team |-> team_name,
                         team_id |-> tp.val[1].team_id,
                         statistics |-> [stats EXCEPT !.err = ""],
                         event_types |-> event_types]>>]

\* _handle_get_stats
HandleGetStats(ps, evs, entities) ==
    LET each ==
            IF entities.players # <<>>
            THEN [i \in DOMAIN entities.players |->
                    PlayerStatsOf(ps, evs, entities.players[i], entities.teams,
                                  entities.event_types)]
            ELSE [i \in DOMAIN entities.teams |->
                    TeamStatsOf(ps, evs, entities.teams[i], entities.event_types)]
    IN  IF FirstErr(each) # "" THEN HandlerRaises(FirstErr(each))
        ELSE Returns("get_stats", Flatten([i \in DOMAIN each |-> each[i].val]),
                     "No matching data found")

\* lines 268-275: the event passes the event-type filter
PassesTypeFilter(event_types, event) ==
    event_types = <<>> \/ TypeMatches(event_types, event)

\* lines 278-287: the event passes the team filter (teams is not empty)
PassesTeamFilter(ps, teams, event) ==
    \E i \in DOMAIN teams :
        /\ TeamPlayers(ps, teams[i]).val # <<>>
        /\ event.team_id = TeamPlayers(ps, teams[i]).val[1].team_id

\* lines 266-289: relevant_events, or the exception of the team filter
RelevantEvents(ps, evs, entities) ==
    LET Passes(e) ==
            /\ PassesTypeFilter(entities.event_types, e)
            /\ entities.teams # <<>> => PassesTeamFilter(ps, entities.teams, e)
        reached == \E i \in DOMAIN evs :
                        PassesTypeFilter(entities.event_types, evs[i])
    IN  IF /\ entities.teams # <<>>
           /\ reached
           /\ TeamPlayers(ps, entities.teams[1]).err # ""
        THEN [err |-> TeamPlayers(ps, entities.teams[1]).err, val |-> <<>>]
        ELSE [err |-> "", val |-> SelectSeq(evs, Passes)]

\* the player_ids of the events, in the order of their first event
KeysInOrder(evs) ==
    LET F[i \in 0..Len(evs)] ==
            IF i = 0 THEN <<>>
            ELSE IF evs[i].player_id = 0
                    \/ \E k \in DOMAIN F[i - 1] : F[i - 1][k] = evs[i].player_id
                 THEN F[i - 1]
                 ELSE Append(F[i - 1], evs[i].player_id)
    IN  F[Len(evs)]

\* lines 292-313: player_stats[player_id]; avg_grade is grade_sum / graded
PlayerStatsEntry(evs, player_id) ==
    LET Mine(e) == e.player_id = player_id
        Graded(e) == ExtractGrade(e).some
        mine == SelectSeq(evs, Mine)
        graded == SelectSeq(mine, Graded)
        F[i \in 0..Len(graded)] ==
            IF i = 0 THEN 0 ELSE F[i - 1] + ExtractGrade(graded[i]).n
    IN  [count |-> Len(mine), graded |-> Len(graded), grade_sum |-> F[Len(graded)]]

\* a key that ranks by the average grade before the count
KeyLess_gradeFirst(a, b) ==
    LET an == IF a.graded = 0 THEN 0 ELSE a.grade_sum
        ad == IF a.graded = 0 THEN 1 ELSE a.graded
        bn == IF b.graded = 0 THEN 0 ELSE b.grade_sum
        bd == IF b.graded = 0 THEN 1 ELSE b.graded
    IN  \/ an * bd < bn * ad
        \/ an * bd = bn * ad /\ a.count < b.count

\* the key of max(): (count, avg_grade if grades else 0); a is less than b
KeyLess(a, b) ==
    LET an == IF a.graded = 0 THEN 0 ELSE a.grade_sum
        ad == IF a.graded = 0 THEN 1 ELSE a.graded
        bn == IF b.graded = 0 THEN 0 ELSE b.grade_sum
        bd == IF b.graded = 0 THEN 1 ELSE b.graded
    IN  \/ a.count < b.count
        \/ a.count = b.count /\ an * bd < bn * ad


\* a max() that returns the last of the greatest keys
TopPlayerId_last(evs) ==
    LET order == KeysInOrder(evs)
        IsMax(i) == \A j \in DOMAIN order :
                        ~KeyLess(PlayerStatsEntry(evs, order[i]),
                                 PlayerStatsEntry(evs, order[j]))
    IN  order[CHOOSE i \in DOMAIN order :
                    IsMax(i) /\ \A j \in (i + 1)..Len(order) : ~IsMax(j)]

\* lines 318-321: max(player_stats.keys(), key=...), the first of the
\* greatest keys in the insertion order of the dict
TopPlayerId(evs) ==
    LET order == KeysInOrder(evs)
        IsMax(i) == \A j \in DOMAIN order :
                        ~KeyLess(PlayerStatsEntry(evs, order[i]),
                                 PlayerStatsEntry(evs, order[j]))
    IN  order[CHOOSE i \in DOMAIN order :
                    IsMax(i) /\ \A j \in 1..(i - 1) : ~IsMax(j)]

\* a lookup that makes up a record for an id that no player has
PlayerById_madeUp(ps, player_id) ==
    LET Is(p) == p.player_id = player_id
    IN  IF SelectSeq(ps, Is) = <<>> /\ ps # <<>>
        THEN <<[ps[1] EXCEPT !.player_id = player_id]>>
        ELSE SelectSeq(ps, Is)

\* lines 326-330: the first player record with the id, if any
PlayerById(ps, player_id) ==
    LET Is(p) == p.player_id = player_id
    IN  SelectSeq(ps, Is)

\* lines 335-350: the record of the top performer
RankingRecord(p, entry, event_types, total) ==
    [query_type |-> "which_team",
     top_players |-> <<[player |-> PlayerPart(p),
                        count |-> entry.count,
                        avg_grade |-> IF entry.graded > 0
                                      THEN <<entry.grade_sum, entry.graded>>
                                      ELSE <<>>]>>,
     event_types |-> event_types,
     total_events |-> total]

\* a handler that ranks only the players that have a player record
HandleGetRankings_fallback(ps, evs, entities) ==
    LET rel == RelevantEvents(ps, evs, entities)
        grades == [i \in DOMAIN rel.val |->
                     IF rel.val[i].player_id # 0 THEN ExtractGrade(rel.val[i])
                     ELSE GradeNone]
        Known(e) == e.player_id = 0 \/ PlayerById(ps, e.player_id) # <<>>
        known == SelectSeq(rel.val, Known)
        top == TopPlayerId(known)
        who == PlayerById(ps, top)
    IN  IF rel.err # "" THEN HandlerRaises(rel.err)
        ELSE IF FirstErr(grades) # "" THEN HandlerRaises(FirstErr(grades))
        ELSE IF KeysInOrder(known) = <<>>
             THEN Returns("get_rankings", <<>>, "No ranking data found")
        ELSE Returns("get_rankings",
                     <<RankingRecord(who[1], PlayerStatsEntry(rel.val, top),
                                     entities.event_types, Len(rel.val))>>,
                     "No ranking data found")

\* _handle_get_rankings
HandleGetRankings(ps, evs, entities) ==
    LET rel == RelevantEvents(ps, evs, entities)
        grades == [i \in DOMAIN rel.val |->
                     IF rel.val[i].player_id # 0 THEN ExtractGrade(rel.val[i])
                     ELSE GradeNone]
        top == TopPlayerId(rel.val)
        who == PlayerById(ps, top)
    IN  IF rel.err # "" THEN HandlerRaises(rel.err)
        ELSE IF FirstErr(grades) # "" THEN HandlerRaises(FirstErr(grades))
        ELSE IF KeysInOrder(rel.val) = <<>> \/ who = <<>>
             THEN Returns("get_rankings", <<>>, "No ranking data found")
        ELSE Returns("get_rankings",
                     <<RankingRecord(who[1], PlayerStatsEntry(rel.val, top),
                                     entities.event_types, Len(rel.val))>>,
                     "No ranking data found")

\* _handle_get_team_info
HandleGetTeamInfo(ps, entities) ==
    LET each == [i \in DOMAIN entities.teams |-> TeamPlayers(ps, entities.teams[i])]
        Some(i) == each[i].val # <<>>
        hits == SelectSeq([i \in DOMAIN each |-> i], Some)
    IN  IF FirstErr(each) # "" THEN HandlerRaises(FirstErr(each))
        ELSE Returns("get_team_info",
                     [k \in DOMAIN hits |->
                        [type |-> "team_info",
                         team_name |-> each[hits[k]].val[1].team_name,
                         players |-> each[hits[k]].val]],
                     "No matching teams found")

\* lines 389-396: the comparison entry of one player reference, if any
ComparisonOf(ps, evs, ref, teams) ==
    LET f == FindPlayer(ps, ref, teams)
        stats == PlayerEventStats(evs, f.player[1].player_id, <<>>)
    IN  IF f.err # "" THEN [err |-> f.err, val |-> <<>>]
        ELSE IF ~f.found THEN [err |-> "", val |-> <<>>]
        ELSE IF stats.err # "" THEN [err |-> stats.err, val |-> <<>>]
        ELSE [err |-> "",
              val |-> <<[player |-> f.player[1],
                         statistics |-> [stats EXCEPT !.err = ""]]>>]

\* _handle_compare
HandleCompare(ps, evs, entities) ==
    LET each == IF Len(entities.players) >= 2
                THEN [i \in DOMAIN entities.players |->
                        ComparisonOf(ps, evs, entities.players[i], entities.teams)]
                ELSE <<>>
        comparison_data == Flatten([i \in DOMAIN each |-> each[i].val])
    IN  IF FirstErr(each) # "" THEN HandlerRaises(FirstErr(each))
        ELSE Returns("compare",
                     IF Len(comparison_data) >= 2
                     THEN <<[type |-> "player_comparison",
                             comparison_data |-> comparison_data]>>
                     ELSE <<>>,
                     "Insufficient data for comparison")

\* a game-info handler that reports success whatever it found
HandleGetGameInfo_always(gs) ==
    [err |-> "",
     val |-> QueryResult("get_game_info",
                         [i \in DOMAIN gs |->
                            [game_id |-> gs[i].id,
                             home_team |-> gs[i].home_team.name,
                             away_team |-> gs[i].away_team.name]],
                         TRUE, None)]

\* _handle_get_game_info (round, start_time, competition and venue are
\* copied like game_id and are left out); no error message is given
HandleGetGameInfo(gs) ==
    [err |-> "",
     val |-> QueryResult("get_game_info",
                         [i \in DOMAIN gs |->
                            [game_id |-> gs[i].id,
                             home_team |-> gs[i].home_team.name,
                             away_team |-> gs[i].away_team.name]],
                         Len(gs) > 0, None)]

\* f"Unknown intent: {intent}"
UnknownIntent(intent) == "Unknown intent: " \o intent

\* lines 128-146: the dispatch on the intent; every handler but
\* _handle_get_game_info begins with entities.get(...)
Dispatch(gs, evs, ps, entities, intent) ==
    IF intent = "get_game_info" THEN HandleGetGameInfo(gs)
    ELSE IF intent \notin {"get_player_info", "get_stats", "get_rankings",
                           "top_stat_in_game", "get_team_info", "compare"}
    THEN [err |-> "", val |-> QueryResult(intent, <<>>, FALSE, UnknownIntent(intent))]
    ELSE IF entities.isNone THEN HandlerRaises(AttrErrGet)
    ELSE IF intent = "get_player_info" THEN HandleGetPlayerInfo(ps, entities)
    ELSE IF intent = "get_stats" THEN HandleGetStats(ps, evs, entities)
    ELSE IF intent \in {"get_rankings", "top_stat_in_game"}
         THEN HandleGetRankings(ps, evs, entities)
    ELSE IF intent = "get_team_info" THEN HandleGetTeamInfo(ps, entities)
    ELSE HandleCompare(ps, evs, entities)

\* the outcome of a call: what it returns, or the exception it lets through
\* (raised), and the message of the exception it caught ("" if none)
CallOutcome(entities, intent, raised, caught, result) ==
    [entities |-> entities, intent |-> intent, raised |-> raised,
     caught |-> caught, result |-> result]

\* the element of a set of one element
Only(S) == CHOOSE x \in S : TRUE

\* get_data_for_query without its except clause
GetDataForQuery_uncaught(gs, evs, ps, entities, intent) ==
    LET h == Dispatch(gs, evs, ps, entities, intent)
    IN  CallOutcome(entities, intent, h.err # "", "", h.val)

\* get_data_for_query: lines 148-155 turn an exception into a QueryResult
\* (h is the outcome of the dispatch, computed once)
GetDataForQuery(gs, evs, ps, entities, intent) ==
    Only({IF h.err # ""
          THEN CallOutcome(entities, intent, FALSE, h.err,
                           QueryResult(intent, <<>>, FALSE, h.err))
          ELSE CallOutcome(entities, intent, FALSE, "", h.val) :
          h \in {Dispatch(gs, evs, ps, entities, intent)}})

\* the three collections of a handler
Corpus(gs, evs, ps) == [games |-> gs, events |-> evs, players |-> ps]

\* a call that consumes the events it has read
CorpusAfter_consumed(c, entities, intent) ==
    [c EXCEPT !.events = IF intent = "get_stats" THEN <<>> ELSE @]

\* lines 114-453: the collections after a call; no handler assigns to
\* self.games, self.events or self.players or changes a record of them
CorpusAfter(c, entities, intent) == c

\* a file of DATA_DIR: its parsed content, or malformed JSON
File(content) == [ok |-> TRUE, content |-> content]
Malformed == [ok |-> FALSE, content |-> <<>>]

\* _load_data: every file the two globs give is loaded, in the order of
\* the globs; json.load of a malformed file raises and the exception is
\* logged and raised again
LoadData(dir) ==
    IF \/ \E i \in DOMAIN dir.game_files : ~dir.game_files[i].ok
       \/ \E i \in DOMAIN dir.event_files : ~dir.event_files[i].ok
    THEN [raised |-> TRUE, corpus |-> Corpus(<<>>, <<>>, <<>>)]
    ELSE [raised |-> FALSE,
          corpus |-> Corpus(
              [i \in DOMAIN dir.game_files |-> dir.game_files[i].content],
              Flatten([i \in DOMAIN dir.event_files |-> dir.event_files[i].content]),
              Flatten([i \in DOMAIN dir.game_files |->
                          ExtractPlayersFromGame(dir.game_files[i].content)]))]

-----------------------------------------------------------------------------
(* The records of the corpora.                                             *)

Racing92 == Team(1, Name(<<"racing", "92">>, TRUE),
                 <<RosterEntry(10, "fly-half", 7,
                               Name(<<"dan">>, TRUE), Name(<<"carter">>, TRUE))>>)

RacingMetro == Team(2, Name(<<"racing", "metro">>, TRUE),
                    <<RosterEntry(7, "flanker", 9,
                                  Name(<<"finn">>, TRUE), Name(<<"russell">>, TRUE))>>)

Lyon == Team(3, Name(<<"lyon">>, TRUE),
             <<RosterEntry(10, "fly-half", 8,
                           Name(<<"leo">>, TRUE), Name(<<"berdeu">>, TRUE))>>)

\* a team whose record has no name
Nameless == Team(4, NoneName,
                 <<RosterEntry(10, "fly-half", 11,
                               Name(<<"sam">>, TRUE), Name(<<"doe">>, TRUE))>>)

Game1 == Game(101, Racing92, Lyon)
Game2 == Game(102, RacingMetro, Lyon)
Game3 == Game(103, Nameless, Lyon)

Try == Name(<<"try">>, FALSE)
Tackle == Name(<<"tackle">>, FALSE)

\* events with a grade in their metadata, with a top-level grade, without
CarterTry9 == Event(Try, 1, 7, Metadata(StrGrade(9)), NoGrade)
CarterTackle == Event(Tackle, 1, 7, NoMetadata, NoGrade)
CarterTry5 == Event(Try, 1, 7, NoMetadata, IntGrade(5))
BerdeuTry5 == Event(Try, 3, 8, NoMetadata, IntGrade(5))

\* an event of a player and a team that no game file holds
DanglingTry == Event(Try, 9, 99, NoMetadata, NoGrade)

\* an event whose metadata field is null
NullMetaTry == Event(Try, 3, 8, NullMetadata, NoGrade)

\* the sequences of at most n different elements of S
Arrangements(S, n) ==
    {q \in UNION {[1..k -> S] : k \in 0..n} :
        \A i, j \in DOMAIN q : i # j => q[i] # q[j]}

GameFilePool == {File(Game1), File(Game2), File(Game3), Malformed}

EventFilePool ==
    { File(<<CarterTry9, BerdeuTry5, CarterTackle>>),
      File(<<DanglingTry, DanglingTry, DanglingTry>>),
      File(<<NullMetaTry>>),
      Malformed }

DataDirs ==
    [game_files : Arrangements(GameFilePool, MaxGameFiles),
     event_files : Arrangements(EventFilePool, MaxEventFiles)]

Intents ==
    {"get_player_info", "get_stats", "get_rankings", "top_stat_in_game",
     "get_team_info", "compare", "get_game_info", "get_roster"}

EntitySets ==
    { Entities(<<>>, <<>>, <<>>),
      Entities(<<Name(<<"10">>, FALSE)>>, <<Name(<<"racing">>, TRUE)>>, <<>>),
      Entities(<<Name(<<"carter">>, FALSE), Name(<<"10">>, FALSE)>>, <<>>,
               <<Name(<<"try">>, TRUE)>>),
      Entities(<<>>, <<Name(<<"lyon">>, FALSE)>>, <<>>),
      NoneEntities }

-----------------------------------------------------------------------------
(* SpecResolver: the construction of a SimpleRugbyDataHandler over a data  *)
(* directory, then any sequence of get_data_for_query calls.               *)

InitResolver ==
    /\ data_dir \in DataDirs
    /\ handler = "none"
    /\ games = <<>>
    /\ events = <<>>
    /\ players = <<>>
    /\ query_result = <<>>
    /\ max_size = 0
    /\ cache = <<>>
    /\ last = NoOp
    /\ lastUse = [x \in CacheKeys |-> 0]
    /\ clock = 0
    /\ IdleClassifier
    /\ IdleParser
    /\ IdleRouting
    /\ IdleExtractor

resolverFrame == <<valid_intents, enable_caching, max_size, cache, cache_hits,
                   cache_misses, last, lastUse, clock, txt, parsed, route_in,
                   route_out, ner_in, ner_out>>

\* SimpleRugbyDataHandler(): __init__ and _load_data
Construct ==
    /\ handler = "none"
    /\ LET r == LoadData(data_dir) IN
        /\ handler' = IF r.raised THEN "failed" ELSE "ready"
        /\ games' = r.corpus.games
        /\ events' = r.corpus.events
        /\ players' = r.corpus.players
    /\ UNCHANGED <<data_dir, query_result>>
    /\ UNCHANGED resolverFrame

\* handler.get_data_for_query(entities, intent)
Resolve(entities, intent) ==
    /\ handler = "ready"
    /\ query_result' = GetDataForQuery(games, events, players, entities, intent)
    /\ LET c == CorpusAfter(Corpus(games, events, players), entities, intent) IN
        /\ games' = c.games
        /\ events' = c.events
        /\ players' = c.players
    /\ UNCHANGED <<data_dir, handler>>
    /\ UNCHANGED resolverFrame

NextResolver ==
    \/ Construct
    \/ \E entities \in EntitySets, intent \in Intents : Resolve(entities, intent)

SpecResolver == InitResolver /\ [][NextResolver]_vars

-----------------------------------------------------------------------------
(* Claims about get_data_for_query, checked under SpecResolver.            *)

\* a call of get_data_for_query has returned or raised
Resolved == query_result # <<>>

HandledIntents ==
    {"get_player_info", "get_stats", "get_rankings", "top_stat_in_game",
     "get_team_info", "compare", "get_game_info"}

\* a loaded player record has no team name
SomePlayerNameless == \E i \in DOMAIN players : players[i].team_name = NoneName

\* a loaded event has a null metadata field
SomeNullMetadata == \E i \in DOMAIN events : events[i].metadata.kind = "null"

\* the call was a ranking query without any filter
UnfilteredRanking ==
    /\ query_result.intent \in {"get_rankings", "top_stat_in_game"}
    /\ ~query_result.entities.isNone
    /\ query_result.entities.teams = <<>>
    /\ query_result.entities.event_types = <<>>

\* the call failed: no success, no data, and the message as error
FailedWith(message) ==
    /\ ~query_result.result.success
    /\ query_result.result.data = <<>>
    /\ query_result.result.error = message

\* C12: get_data_for_query never lets an exception through: for every
\* intent and every entities argument it returns a QueryResult; an intent
\* outside the handled set gives success=False, no data and an "Unknown
\* intent" error; an exception raised inside a handler (a player record
\* without team name met by a team filter, an event with null metadata met
\* by a ranking) gives success=False with the exception's message as error.
C12_NeverPropagates ==
    Resolved =>
        /\ ~query_result.raised
        /\ query_result.result.intent \in {query_result.intent, "get_rankings"}
        /\ query_result.intent \notin HandledIntents
              => FailedWith(UnknownIntent(query_result.intent))
        /\ query_result.caught # "" => FailedWith(query_result.caught)
        /\ ( /\ query_result.intent = "get_team_info"
             /\ query_result.entities.teams # <<>>
             /\ SomePlayerNameless ) => FailedWith(AttrErrLower)
        /\ (UnfilteredRanking /\ SomeNullMetadata) => FailedWith(AttrErrGet)

\* C12 witness: a ranking query met an event with null metadata and the
\* call returned success=False with the AttributeError's message.
C12_Witness ==
    /\ Resolved
    /\ UnfilteredRanking
    /\ SomeNullMetadata
    /\ ~query_result.raised
    /\ query_result.caught = AttrErrGet
    /\ FailedWith(AttrErrGet)

\* C13: in every QueryResult returned, for every intent and entities,
\* success is true exactly when data is not empty; for get_game_info,
\* success is true exactly when at least one game is loaded, whatever the
\* entities are.
C13_SuccessIffData ==
    Resolved =>
        /\ query_result.result.success <=> query_result.result.data # <<>>
        /\ query_result.intent = "get_game_info" =>
              /\ query_result.result.success <=> games # <<>>
              /\ Len(query_result.result.data) = Len(games)

\* C13 witness: get_game_info with a team filter in the entities succeeds
\* on a handler that holds a game, with one record for the game.
C13_Witness ==
    /\ Resolved
    /\ query_result.intent = "get_game_info"
    /\ query_result.entities.teams # <<>>
    /\ Len(games) = 1
    /\ query_result.result.success
    /\ Len(query_result.result.data) = 1

\* an event names a player that no loaded player record has
HasDangling ==
    \E i \in DOMAIN events :
        /\ events[i].player_id # 0
        /\ \A k \in DOMAIN players : players[k].player_id # events[i].player_id
        /\ \A k \in DOMAIN players : players[k].team_id # events[i].team_id

\* the player ids of the records of the result
PlayerIdsIn(call) ==
    LET data == call.result.data IN
    IF call.intent = "get_player_info"
    THEN {data[k].player_id : k \in DOMAIN data}
    ELSE IF call.intent = "get_stats" /\ call.entities.players # <<>>
    THEN {data[k].player.player_id : k \in DOMAIN data}
    ELSE IF call.intent \in {"get_rankings", "top_stat_in_game"}
    THEN {data[k].top_players[1].player.player_id : k \in DOMAIN data}
    ELSE IF call.intent = "get_team_info"
    THEN UNION {{data[k].players[j].player_id : j \in DOMAIN data[k].players} :
                    k \in DOMAIN data}
    ELSE IF call.intent = "compare"
    THEN UNION {{data[k].comparison_data[j].player.player_id :
                    j \in DOMAIN data[k].comparison_data} : k \in DOMAIN data}
    ELSE {}

\* the team ids of the team records of the result
TeamIdsIn(call) ==
    LET data == call.result.data IN
    IF call.intent = "get_stats" /\ call.entities.players = <<>>
    THEN {data[k].team_id : k \in DOMAIN data}
    ELSE IF call.intent = "get_team_info"
    THEN UNION {{data[k].players[j].team_id : j \in DOMAIN data[k].players} :
                    k \in DOMAIN data}
    ELSE {}

\* the messages that the handlers give without any exception
PlainErrors ==
    {None, "No matching players found", "No matching data found",
     "No ranking data found", "No matching teams found",
     "Insufficient data for comparison"}
    \cup {UnknownIntent(i) : i \in Intents}

\* C17: on a corpus in which an event names a player and a team that no
\* loaded record has, get_data_for_query fails for no intent because of
\* it: it returns a QueryResult, an exception-derived error occurs only
\* with a record without team name, a null metadata or a None entities
\* argument, and no record of the result is about the unknown player or
\* team.
C17_DanglingReferences ==
    (Resolved /\ HasDangling) =>
        /\ ~query_result.raised
        /\ query_result.caught # "" =>
              \/ SomePlayerNameless
              \/ SomeNullMetadata
              \/ query_result.entities.isNone
        /\ query_result.caught = "" => query_result.result.error \in PlainErrors
        /\ PlayerIdsIn(query_result) \subseteq
              {players[k].player_id : k \in DOMAIN players}
        /\ TeamIdsIn(query_result) \subseteq
              {players[k].team_id : k \in DOMAIN players}

\* C17 witness: the unknown player has the most events of a ranking; the
\* query returns no record and "No ranking data found", with no exception.
C17_Witness ==
    /\ Resolved
    /\ HasDangling
    /\ UnfilteredRanking
    /\ players # <<>>
    /\ events = <<DanglingTry, DanglingTry, DanglingTry>>
    /\ query_result.caught = ""
    /\ query_result.result.data = <<>>
    /\ query_result.result.error = "No ranking data found"

\* C18: the construction of the handler over a directory in which no file
\* matches the game-file pattern fails, and a handler never holds an empty
\* list of games.
C18_NoGameFileIsFatal ==
    /\ (handler # "none" /\ data_dir.game_files = <<>>) => handler = "failed"
    /\ handler = "ready" => games # <<>>

-----------------------------------------------------------------------------
(* SpecRankings: one ranking query on a handler built over the two games   *)
(* and over one event file of at most MaxEvents events.                    *)

BerdeuTry7 == Event(Try, 3, 8, Metadata(BadGrade), StrGrade(7))
RussellTry5 == Event(Try, 2, 9, NoMetadata, IntGrade(5))

\* an event of a team, without player_id
TeamTry == Event(Try, 1, 0, NoMetadata, NoGrade)

RankingEvents ==
    {CarterTry9, CarterTry5, CarterTackle, RussellTry5, BerdeuTry7, DanglingTry,
     TeamTry}

RankingDirs ==
    [game_files : Arrangements({File(Game1), File(Game2)}, 2) \ {<<>>},
     event_files : {<<File(evs)>> :
                        evs \in UNION {[1..n -> RankingEvents] : n \in 0..MaxEvents}}]

RankingQueries ==
    { Entities(<<>>, <<>>, <<>>),
      Entities(<<>>, <<Name(<<"racing">>, TRUE)>>, <<>>),
      Entities(<<>>, <<Name(<<"lyon">>, FALSE), Name(<<"metro">>, FALSE)>>,
               <<Name(<<"try">>, TRUE)>>),
      Entities(<<>>, <<>>, <<Name(<<"tackle">>, FALSE)>>) }

\* the state after SimpleRugbyDataHandler() over the directory dir
Constructed(dir) ==
    /\ data_dir = dir
    /\ handler = "ready"
    /\ games = LoadData(dir).corpus.games
    /\ events = LoadData(dir).corpus.events
    /\ players = LoadData(dir).corpus.players
    /\ query_result = <<>>
    /\ max_size = 0
    /\ cache = <<>>
    /\ last = NoOp
    /\ lastUse = [x \in CacheKeys |-> 0]
    /\ clock = 0
    /\ IdleClassifier
    /\ IdleParser
    /\ IdleRouting
    /\ IdleExtractor

InitRankings == \E dir \in RankingDirs : Constructed(dir)

\* the first get_data_for_query call on the handler
Query(entities, intent) ==
    /\ query_result = <<>>
    /\ Resolve(entities, intent)

NextRankings ==
    \E entities \in RankingQueries, intent \in {"get_rankings", "top_stat_in_game"} :
        Query(entities, intent)

SpecRankings == InitRankings /\ [][NextRankings]_vars

-----------------------------------------------------------------------------
(* Claims about _handle_get_rankings, checked under SpecRankings.          *)

\* a ranking query has returned without meeting an exception
Ranked ==
    /\ Resolved
    /\ query_result.intent \in {"get_rankings", "top_stat_in_game"}
    /\ query_result.caught = ""

\* the events that passed the filters of the query
Passed == RelevantEvents(players, events, query_result.entities).val

\* the event count, the number of graded events and the sum of the grades
\* of a player among the events passed
StatOf(passed, pid) ==
    LET mine == {i \in DOMAIN passed : passed[i].player_id = pid}
        graded == {i \in mine : ExtractGrade(passed[i]).some}
        F[i \in 0..Len(passed)] ==
            IF i = 0 THEN 0
            ELSE F[i - 1] + (IF i \in graded THEN ExtractGrade(passed[i]).n ELSE 0)
    IN  [count |-> Cardinality(mine), graded |-> Cardinality(graded),
         sum |-> F[Len(passed)]]

\* the pair (count, average grade, 0 without graded event) of a is at
\* least that of b
PairAtLeast(a, b) ==
    LET da == IF a.graded = 0 THEN 1 ELSE a.graded
        db == IF b.graded = 0 THEN 1 ELSE b.graded
    IN  \/ a.count > b.count
        \/ a.count = b.count /\ a.sum * db >= b.sum * da

\* the players that have an event among those passed, their statistics,
\* and those of them whose pair is the greatest
RankingFacts ==
    LET passed == Passed
        cands == {passed[i].player_id : i \in DOMAIN passed} \ {0}
        stat == [p \in cands |-> StatOf(passed, p)]
    IN  [passed |-> passed,
         candidates |-> cands,
         stat |-> stat,
         greatest |-> {p \in cands : \A q \in cands : PairAtLeast(stat[p], stat[q])}]

\* a loaded player record has the id
HasRecord(pid) == \E i \in DOMAIN players : players[i].player_id = pid

\* exactly one record, with one top performer, who has the greatest pair,
\* with the performer's count and the number of events that passed
OneTopRecord(f) ==
    LET data == query_result.result.data IN
    /\ Len(data) = 1
    /\ Len(data[1].top_players) = 1
    /\ data[1].top_players[1].player.player_id \in f.greatest
    /\ data[1].top_players[1].count =
            f.stat[data[1].top_players[1].player.player_id].count
    /\ data[1].total_events = Len(f.passed)

\* C14 as stated: whenever some player has an event passing the filters,
\* the handler emits exactly one record with the one top performer.
C14_Original ==
    Ranked =>
        LET f == RankingFacts
        IN  f.candidates # {} => OneTopRecord(f)

\* C14 amended: a ranking query emits at most one record; when it emits
\* one, the record has exactly one top performer, who is a player with
\* the lexicographically greatest pair (event count, average grade, 0
\* without graded event) among the players that have an event passing the
\* filters, with that player's event count and with total_events equal to
\* the number of events that passed; it emits the record when every player
\* with the greatest pair has a loaded player record, and emits nothing
\* (success=False) when none of them has one or when no event with a
\* player_id passed.
C14_TopPerformer ==
    Ranked =>
        LET f == RankingFacts IN
        /\ query_result.result.data # <<>> => OneTopRecord(f)
        /\ (f.candidates # {} /\ \A p \in f.greatest : HasRecord(p))
                => query_result.result.data # <<>>
        /\ (\A p \in f.greatest : ~HasRecord(p))
                => /\ query_result.result.data = <<>>
                   /\ ~query_result.result.success

\* C14 witness: Russell and Carter have one try each, Carter's grade is the
\* higher one, and the record names Carter although Russell's try is first.
C14_Witness ==
    /\ Ranked
    /\ events = <<RussellTry5, CarterTry9>>
    /\ Len(games) = 2
    /\ query_result.entities = Entities(<<>>, <<>>, <<>>)
    /\ OneTopRecord(RankingFacts)
    /\ query_result.result.data[1].top_players[1].player.player_id = 7
    /\ query_result.result.data[1].top_players[1].avg_grade = <<9, 1>>

\* the team_id of the event is that of some player whose team name
\* contains one of the requested team strings
OnAnyMatchingTeam(event) ==
    \E i \in DOMAIN query_result.entities.teams, k \in DOMAIN players :
        /\ NameMatches(query_result.entities.teams[i], players[k].team_name)
        /\ event.team_id = players[k].team_id

\* C15: in a ranking query with a team filter, the events that pass are
\* exactly those that pass the event-type filter and whose team_id is that
\* of any player whose team name contains a requested team string: the
\* record's total_events is their number (so a string that matches two
\* teams lets the events of both pass).
C15_TeamFilterAnyPlayer ==
    ( /\ Ranked
      /\ query_result.entities.teams # <<>>
      /\ query_result.result.data # <<>> )
    => query_result.result.data[1].total_events =
         Cardinality({i \in DOMAIN events :
                        /\ PassesTypeFilter(query_result.entities.event_types, events[i])
                        /\ OnAnyMatchingTeam(events[i])})

-----------------------------------------------------------------------------
(* SpecGrades: one statistics or ranking query about Dan Carter on a       *)
(* handler whose events are tries of his, with every combination of a      *)
(* metadata field and a top-level grade.                                   *)

MetadataValues ==
    {NoMetadata, NullMetadata, Metadata(NoGrade), Metadata(StrGrade(7)),
     Metadata(BadGrade), Metadata(InfGrade)}

GradeValues == {NoGrade, IntGrade(5), BadGrade, InfGrade}

GradeEvents == {Event(Try, 1, 7, md, g) : md \in MetadataValues, g \in GradeValues}

GradeDirs ==
    [game_files : {<<File(Game1)>>},
     event_files : {<<File(evs)>> :
                        evs \in UNION {[1..n -> GradeEvents] : n \in 0..MaxGradeEvents}}]

GradeQuery == Entities(<<Name(<<"carter">>, FALSE)>>, <<>>, <<>>)

InitGrades == \E dir \in GradeDirs : Constructed(dir)

NextGrades ==
    \E intent \in {"get_stats", "top_stat_in_game"} : Query(GradeQuery, intent)

SpecGrades == InitGrades /\ [][NextGrades]_vars

-----------------------------------------------------------------------------
(* Claims about _extract_grade, checked under SpecGrades.                  *)

\* the value is present and integer-parseable
Parseable(g) == g.k \in {"int", "str"}

\* the grade of the claim: metadata.grade if present and parseable, else
\* the top-level grade if present and parseable, else absent
ExpectedGrade(event) ==
    IF event.metadata.kind = "dict" /\ Parseable(event.metadata.grade)
    THEN GradeIs(event.metadata.grade.n)
    ELSE IF Parseable(event.grade) THEN GradeIs(event.grade.n)
    ELSE GradeNone

\* the statistics of the claim for the tries: every event is counted, and
\* the events with a grade alone enter count, sum, min and max
ExpectedTryStats(stats) ==
    LET graded == {i \in DOMAIN events : ExpectedGrade(events[i]).some}
        F[i \in 0..Len(events)] ==
            IF i = 0 THEN 0
            ELSE F[i - 1] + (IF i \in graded THEN ExpectedGrade(events[i]).n ELSE 0)
    IN  /\ stats.total_events = Len(events)
        /\ events # <<>> => stats.event_counts[Try] = Len(events)
        /\ graded = {} => stats.grade_stats = <<>>
        /\ graded # {} =>
            /\ stats.grade_stats[Try].count = Cardinality(graded)
            /\ stats.grade_stats[Try].sum = F[Len(events)]
            /\ \E i \in graded : stats.grade_stats[Try].min = ExpectedGrade(events[i]).n
            /\ \E i \in graded : stats.grade_stats[Try].max = ExpectedGrade(events[i]).n
            /\ \A i \in graded :
                /\ stats.grade_stats[Try].min <= ExpectedGrade(events[i]).n
                /\ stats.grade_stats[Try].max >= ExpectedGrade(events[i]).n

\* C16: grade extraction gives metadata.grade when it is present and
\* integer-parseable, otherwise the top-level grade when that is present
\* and integer-parseable, otherwise no grade, and never raises; in the
\* statistics of a player an event without grade is counted as an event
\* and is left out of the grade count, sum, minimum and maximum.
C16_GradeExtraction ==
    (Resolved /\ query_result.intent = "get_stats") =>
        /\ query_result.caught = ""
        /\ \A i \in DOMAIN events : ExtractGrade(events[i]) = ExpectedGrade(events[i])
        /\ query_result.result.success
        /\ ExpectedTryStats(query_result.result.data[1].statistics)

-----------------------------------------------------------------------------
(* SpacyEntityExtractor.extract (NER_spacy.py).  The spaCy pipeline is an  *)
(* external annotator: a query comes as the sequence of its tokens, each   *)
(* with its text, its lowercased text, whether it is a digit token         *)
(* (text.isdigit()), whether its text is made of decimal digits (what      *)
(* int() and the pattern \d+ accept) and then its value, whether it is     *)
(* tagged PROPN, and its entity mark: "" outside any entity, a label for   *)
(* the first token of an entity, "I" for a token that continues the        *)
(* entity of the token before it.  An extracted string is the sequence of  *)
(* the texts of its tokens.                                                *)

Token(text, lower, digit, decimal, n, propn, ent) ==
    [text |-> text, lower |-> lower, digit |-> digit, decimal |-> decimal,
     n |-> n, propn |-> propn, ent |-> ent]

Plain(text) == Token(text, text, FALSE, FALSE, 0, FALSE, "")
Digit(text, n) == Token(text, text, TRUE, TRUE, n, FALSE, "")
Proper(text, lower, ent) == Token(text, lower, FALSE, FALSE, 0, TRUE, ent)

\* a token like the superscript two: isdigit() is true of it, int() raises
\* ValueError on it and \d does not match it
OtherDigit(text) == Token(text, text, TRUE, FALSE, 0, FALSE, "")

\* the possessive marker, a token of its own
Poss(ent) == Token("'s", "'s", FALSE, FALSE, 0, FALSE, ent)

\* the vocabularies read from jersey_mappings.yaml and event_mappings.yaml
position_terms == {<<"fullback">>}
event_terms == {<<"tries">>}

\* text[0].isupper(), for the token texts of the model
IsUpper(t) == t.text # t.lower

\* the entities of the doc: label, first and last token
Ents(doc) ==
    LET Starts(i) == doc[i].ent \notin {"", "I"}
        EndOf(i) == CHOOSE j \in i..Len(doc) :
                        /\ \A k \in (i + 1)..j : doc[k].ent = "I"
                        /\ j < Len(doc) => doc[j + 1].ent # "I"
        starts == SelectSeq([i \in DOMAIN doc |-> i], Starts)
    IN  [k \in DOMAIN starts |->
            [label |-> doc[starts[k]].ent, from |-> starts[k], to |-> EndOf(starts[k])]]

\* ent.text, as the texts of the tokens of the entity
EntText(doc, ent) == [k \in 1..(ent.to - ent.from + 1) |-> doc[ent.from + k - 1].text]

\* if name.endswith("'s"): name = name[:-2]
StripPossessive(text) ==
    IF text # <<>> /\ text[Len(text)] = "'s" THEN SubSeq(text, 1, Len(text) - 1)
    ELSE text

\* any(word in ["Lyon", "Toulon", "Racing", "Bayonne"] for word in
\* ent.text.split()): a possessive marker is part of the word before it
HasTeamWord(text) ==
    \E k \in DOMAIN text :
        /\ text[k] \in {"Lyon", "Toulon", "Racing", "Bayonne"}
        /\ k < Len(text) => text[k + 1] # "'s"

\* the strings that a test gives for the positions 1..n, in this order
Collect(n, Test(_), Value(_)) ==
    LET hits == SelectSeq([i \in 1..n |-> i], Test)
    IN  [k \in DOMAIN hits |-> Value(hits[k])]

\* lines 139-146: the numbers of the "player" + digit matches
PatternPlayers(doc) ==
    LET Test(i) ==
            /\ i < Len(doc)
            /\ doc[i].lower = "player"
            /\ doc[i + 1].digit
            /\ doc[i + 1].decimal
        Value(i) == <<doc[i + 1].text>>
    IN  Collect(Len(doc), Test, Value)

\* the digits with a context, whatever their value
ContextPlayers_anyNumber(doc) ==
    LET Test(i) ==
            /\ doc[i].digit
            /\ \/ i > 1 /\ doc[i - 1].lower \in {"player", "number", "no"}
               \/ i < Len(doc) /\ doc[i + 1].text = "'s"
        Value(i) == <<doc[i].text>>
    IN  Collect(Len(doc), Test, Value)

\* lines 149-155: the digits between 1 and 23 with a context
ContextPlayers(doc) ==
    LET Test(i) ==
            /\ doc[i].digit
            /\ 1 <= doc[i].n
            /\ doc[i].n <= 23
            /\ \/ i > 1 /\ doc[i - 1].lower \in {"player", "number", "no"}
               \/ i < Len(doc) /\ doc[i + 1].text = "'s"
        Value(i) == <<doc[i].text>>
    IN  Collect(Len(doc), Test, Value)

\* lines 158-165: the PERSON entities without team word
PersonPlayers(doc) ==
    LET ents == Ents(doc)
        Test(k) == ents[k].label = "PERSON" /\ ~HasTeamWord(EntText(doc, ents[k]))
        Value(k) == StripPossessive(EntText(doc, ents[k]))
    IN  Collect(Len(ents), Test, Value)

\* line 150: int(token.text) raises on a digit token that is not decimal
ValueErr == "invalid literal for int() with base 10"

IntRaises(doc) == \E i \in DOMAIN doc : doc[i].digit /\ ~doc[i].decimal

\* _extract_players: the list, or the exception of line 150
ExtractPlayers(doc) ==
    IF IntRaises(doc) THEN [err |-> ValueErr, list |-> <<>>]
    ELSE [err |-> "",
          list |-> PatternPlayers(doc) \o ContextPlayers(doc) \o PersonPlayers(doc)]

\* _extract_teams: the ORG, GPE and LOC entities, then the capitalized
\* proper nouns after an indicator
ExtractTeams(doc) ==
    LET ents == Ents(doc)
        IsPlace(k) == ents[k].label \in {"ORG", "GPE", "LOC"}
        Named(k) == StripPossessive(EntText(doc, ents[k]))
        After(i) ==
            /\ doc[i].lower \in {"from", "for", "against", "versus", "vs", "in", "at"}
            /\ i < Len(doc)
            /\ IsUpper(doc[i + 1])
            /\ doc[i + 1].propn
        Next1(i) == <<doc[i + 1].text>>
    IN  Collect(Len(ents), IsPlace, Named) \o Collect(Len(doc), After, Next1)

\* lines 196-203 and 212-219: per token, the token if it is a term, then
\* the token and the next one if the two words are a term
TermMatches(doc, terms) ==
    LET One(i) == IF <<doc[i].lower>> \in terms THEN <<<<doc[i].text>>>> ELSE <<>>
        Two(i) == IF i < Len(doc) /\ <<doc[i].lower, doc[i + 1].lower>> \in terms
                  THEN <<<<doc[i].text, doc[i + 1].text>>>> ELSE <<>>
    IN  Flatten([i \in DOMAIN doc |-> One(i) \o Two(i)])

\* _extract_positions
ExtractPositions(doc) == TermMatches(doc, position_terms)

\* _extract_events
ExtractEvents(doc) == TermMatches(doc, event_terms)

\* _extract_time_references: the TIME_REF matches
ExtractTimeReferences(doc) ==
    LET Test(i) ==
            /\ i < Len(doc)
            /\ \/ doc[i].lower \in {"round", "match", "game"} /\ doc[i + 1].digit
               \/ doc[i].lower = "this" /\ doc[i + 1].lower = "season"
               \/ doc[i].lower = "last" /\ doc[i + 1].lower \in {"match", "game", "season"}
        Value(i) == <<doc[i].text, doc[i + 1].text>>
    IN  Collect(Len(doc), Test, Value)

\* list(dict.fromkeys(list)): the first occurrence of every string
Dedupe(list) ==
    LET First(i) == \A j \in 1..(i - 1) : list[j] # list[i]
        keep == SelectSeq([i \in DOMAIN list |-> i], First)
    IN  [k \in DOMAIN keep |-> list[keep[k]]]

\* _get_empty_structure
EmptyStructure ==
    [players |-> <<>>, teams |-> <<>>, positions |-> <<>>,
     event_types |-> <<>>, time_reference |-> <<>>]

\* extract lets the exception of an _extract_* method through
ExtractRaises(err) == [raised |-> err]

\* extract(query): input.kind tells a None, empty or whitespace-only
\* query from a text, of which input.doc is nlp(query)
ExtractEntities(input) ==
    IF input.kind # "text" THEN EmptyStructure
    ELSE IF ExtractPlayers(input.doc).err # ""
    THEN ExtractRaises(ExtractPlayers(input.doc).err)
    ELSE [players |-> Dedupe(ExtractPlayers(input.doc).list),
          teams |-> Dedupe(ExtractTeams(input.doc)),
          positions |-> Dedupe(ExtractPositions(input.doc)),
          event_types |-> Dedupe(ExtractEvents(input.doc)),
          time_reference |-> Dedupe(ExtractTimeReferences(input.doc))]

-----------------------------------------------------------------------------
(* SpecExtractor: one extractor, one query, one call of extract.           *)

\* the annotated tokens of the queries ("^2" stands for the superscript two)
TokenPool ==
    {Plain("player"), Plain("no"), Digit("7", 7), Digit("25", 25), OtherDigit("^2"),
     Poss(""), Poss("I"), Plain("from"),
     Proper("Lyon", "lyon", "ORG"), Proper("Lyon", "lyon", "PERSON"),
     Proper("Dupont", "dupont", "PERSON"), Proper("Dupont", "dupont", "I"),
     Proper("Dupont", "dupont", ""),
     Plain("tries"), Plain("fullback"), Plain("this"), Plain("season")}

\* "player 7's tries this season"
ExampleDoc ==
    <<Plain("player"), Digit("7", 7), Poss(""), Plain("tries"),
      Plain("this"), Plain("season")>>

\* a query that is None, empty or whitespace only has no doc
NoText(kind) == [kind |-> kind, doc |-> <<>>]
Text(doc) == [kind |-> "text", doc |-> doc]

ExtractorQueries ==
    {NoText(kind) : kind \in {"none", "empty", "blank"}}
        \cup {Text(doc) : doc \in UNION {[1..n -> TokenPool] : n \in 1..MaxDocLen}}
        \cup {Text(ExampleDoc)}

InitExtractor ==
    /\ ner_in \in ExtractorQueries
    /\ ner_out = <<>>
    /\ max_size = 0
    /\ cache = <<>>
    /\ last = NoOp
    /\ lastUse = [x \in CacheKeys |-> 0]
    /\ clock = 0
    /\ IdleClassifier
    /\ IdleParser
    /\ IdleRouting
    /\ IdleResolver

\* entities = extractor.extract(query)
Extract ==
    /\ ner_out = <<>>
    /\ ner_out' = ExtractEntities(ner_in)
    /\ UNCHANGED <<valid_intents, enable_caching, max_size, cache, cache_hits,
                   cache_misses, last, lastUse, clock, txt, parsed, route_in,
                   route_out, ner_in>>
    /\ UNCHANGED <<data_dir, handler, games, events, players, query_result>>

NextExtractor == Extract

SpecExtractor == InitExtractor /\ [][NextExtractor]_vars

-----------------------------------------------------------------------------
(* Claims about extract, checked under SpecExtractor.                      *)

EntityKeys == {"players", "teams", "positions", "event_types", "time_reference"}

\* the candidates that the rules produce for a key, in the order of the rules
Candidates(key) ==
    CASE key = "players" -> ExtractPlayers(ner_in.doc).list
      [] key = "teams" -> ExtractTeams(ner_in.doc)
      [] key = "positions" -> ExtractPositions(ner_in.doc)
      [] key = "event_types" -> ExtractEvents(ner_in.doc)
      [] key = "time_reference" -> ExtractTimeReferences(ner_in.doc)

\* the position of the first occurrence of a string in a list
FirstIndex(list, x) == CHOOSE i \in DOMAIN list : list[i] = x /\ \A j \in 1..(i - 1) : list[j] # x

\* C20: the result of extract has exactly the five keys players, teams,
\* positions, event_types and time_reference; each is a list; no list holds
\* a string twice; a list holds the candidates of its rules, in the order of
\* their first occurrence; a None, empty or whitespace-only query gives five
\* empty lists.
C20_EntitySetShape ==
    ner_out # <<>> =>
        /\ DOMAIN ner_out = EntityKeys
        /\ \A key \in EntityKeys :
            LET list == ner_out[key]
                cand == IF ner_in.kind = "text" THEN Candidates(key) ELSE <<>>
            IN  /\ DOMAIN list = 1..Len(list)
                /\ \A i, j \in DOMAIN list : i # j => list[i] # list[j]
                /\ {list[i] : i \in DOMAIN list} = {cand[i] : i \in DOMAIN cand}
                /\ \A i, j \in DOMAIN list :
                    i < j => FirstIndex(cand, list[i]) < FirstIndex(cand, list[j])
        /\ ner_in.kind # "text" => \A key \in EntityKeys : ner_out[key] = <<>>

\* "player 7's tries this season": the number 7 is found by the pattern and
\* by the contextual rule, and is in the list once
C20_Witness ==
    /\ ner_out # <<>>
    /\ ner_in = Text(ExampleDoc)
    /\ PatternPlayers(ExampleDoc) = <<<<"7">>>>
    /\ ContextPlayers(ExampleDoc) = <<<<"7">>>>
    /\ ner_out.players = <<<<"7">>>>
    /\ ner_out.event_types = <<<<"tries">>>>
    /\ ner_out.time_reference = <<<<"this", "season">>>>
    /\ ner_out.teams = <<>>

\* extract has returned an entity set (it has not raised)
Returned == ner_out # <<>> /\ "raised" \notin DOMAIN ner_out

\* a digit token at position i of the doc has a context of the rule
HasContext(doc, i) ==
    \/ i > 1 /\ doc[i - 1].lower \in {"player", "number", "no"}
    \/ i < Len(doc) /\ doc[i + 1].text = "'s"

\* the numbers of the doc that the "player" + digit pattern matches
PatternNumbers(doc) ==
    {doc[i + 1].text : i \in {j \in 1..(Len(doc) - 1) : doc[j].lower = "player" /\ doc[j + 1].digit}}

\* C21: every number that the contextual rule gives is the text of a digit
\* token with a value between 1 and 23 that has a context; a digit token
\* with a value outside 1..23 is in players only if the "player" + digit
\* pattern matches it.
C21_JerseyBound ==
    (Returned /\ ner_in.kind = "text") =>
        LET doc == ner_in.doc
            rule == ContextPlayers(doc)
        IN  /\ \A k \in DOMAIN rule :
                \E i \in DOMAIN doc :
                    /\ doc[i].digit
                    /\ rule[k] = <<doc[i].text>>
                    /\ doc[i].n \in 1..23
                    /\ HasContext(doc, i)
            /\ \A i \in DOMAIN doc :
                (/\ doc[i].digit
                 /\ doc[i].n \notin 1..23
                 /\ \E k \in DOMAIN ner_out.players : ner_out.players[k] = <<doc[i].text>>)
                    => doc[i].text \in PatternNumbers(doc)

\* "no 25's": the number 25 has both contexts and is not a player
C21_Witness ==
    /\ Returned
    /\ ner_in = Text(<<Plain("no"), Digit("25", 25), Poss("")>>)
    /\ HasContext(ner_in.doc, 2)
    /\ ner_out.players = <<>>

-----------------------------------------------------------------------------
(* SpecStats: one get_stats query on a handler built over one game and     *)
(* over one event file of at most MaxEvents events of two types, with and  *)
(* without grade.                                                          *)

CarterTackle3 == Event(Tackle, 1, 7, Metadata(IntGrade(3)), NoGrade)

StatsEvents ==
    {CarterTry9, CarterTry5, CarterTackle, CarterTackle3, TeamTry, BerdeuTry7,
     NullMetaTry}

StatsDirs ==
    [game_files : {<<File(Game1)>>},
     event_files : {<<File(evs)>> :
                        evs \in UNION {[1..n -> StatsEvents] : n \in 0..MaxEvents}}]

StatsQueries ==
    { Entities(<<Name(<<"carter">>, FALSE)>>, <<>>, <<>>),
      Entities(<<Name(<<"carter">>, FALSE)>>, <<>>, <<Name(<<"try">>, TRUE)>>),
      Entities(<<Name(<<"10">>, FALSE)>>, <<>>, <<Name(<<"tackle">>, FALSE)>>),
      Entities(<<>>, <<Name(<<"racing">>, TRUE)>>, <<>>),
      Entities(<<>>, <<Name(<<"racing">>, FALSE), Name(<<"lyon">>, FALSE)>>,
               <<Name(<<"try">>, FALSE)>>) }

InitStats == \E dir \in StatsDirs : Constructed(dir)

NextStats == \E entities \in StatsQueries : Query(entities, "get_stats")

SpecStats == InitStats /\ [][NextStats]_vars

-----------------------------------------------------------------------------
(* Claims about the statistics, checked under SpecStats.                   *)

\* the sum of the values f[i] over the finite set S
RECURSIVE SumOver(_, _)
SumOver(f, S) ==
    IF S = {} THEN 0
    ELSE LET i == CHOOSE j \in S : TRUE IN f[i] + SumOver(f, S \ {i})

\* the positions of the loaded events that a record of the result selects
SelectedBy(record) ==
    {i \in DOMAIN events :
        /\ IF "player" \in DOMAIN record
           THEN events[i].player_id = record.player.player_id
           ELSE events[i].team_id = record.team_id
        /\ PassesTypeFilter(record.event_types, events[i])}

\* the statistics are those of the claim for the selected events
StatsAreRight(stats, selected) ==
    LET OfType(T) == {i \in selected : events[i].type = T}
        Graded(T) == {i \in OfType(T) : ExtractGrade(events[i]).some}
        grade == [i \in DOMAIN events |->
                    IF ExtractGrade(events[i]).some THEN ExtractGrade(events[i]).n ELSE 0]
        types == {events[i].type : i \in DOMAIN events} \cup DOMAIN stats.event_counts
                    \cup DOMAIN stats.grade_stats
    IN  /\ stats.total_events = Cardinality(selected)
        /\ stats.total_events =
               SumOver([T \in types |-> IF T \in DOMAIN stats.event_counts
                                        THEN stats.event_counts[T] ELSE 0], types)
        /\ \A T \in types :
            /\ T \in DOMAIN stats.event_counts <=> OfType(T) # {}
            /\ T \in DOMAIN stats.event_counts =>
                   stats.event_counts[T] = Cardinality(OfType(T))
            /\ T \in DOMAIN stats.grade_stats <=> Graded(T) # {}
            /\ T \in DOMAIN stats.grade_stats =>
                LET g == stats.grade_stats[T] IN
                /\ g.count = Cardinality(Graded(T))
                /\ g.sum = SumOver(grade, Graded(T))
                /\ g.avg = <<g.sum, g.count>>
                /\ \E i \in Graded(T) : g.min = grade[i]
                /\ \E i \in Graded(T) : g.max = grade[i]
                /\ \A i \in Graded(T) : g.min <= grade[i] /\ grade[i] <= g.max
                /\ g.min * g.count <= g.sum
                /\ g.sum <= g.max * g.count

\* count, sum, avg, min and max per type, and the counts
Accumulated(stats) ==
    [total_events |-> stats.total_events,
     event_counts |-> stats.event_counts,
     grade_stats |-> [T \in DOMAIN stats.grade_stats |->
                        [count |-> stats.grade_stats[T].count,
                         sum |-> stats.grade_stats[T].sum,
                         avg |-> stats.grade_stats[T].avg,
                         min |-> stats.grade_stats[T].min,
                         max |-> stats.grade_stats[T].max]]]

\* the orders of the loaded events
Orders ==
    {p \in [DOMAIN events -> DOMAIN events] : \A i, j \in DOMAIN events : i # j => p[i] # p[j]}

\* the statistics are the same in every order of the loaded events
SameInEveryOrder(record) ==
    \A p \in Orders :
        LET evs == [i \in DOMAIN events |-> events[p[i]]]
            again == IF "player" \in DOMAIN record
                     THEN PlayerEventStats(evs, record.player.player_id, record.event_types)
                     ELSE TeamEventStats(evs, record.team_id, record.event_types)
        IN  Accumulated(again) = Accumulated(record.statistics)

\* get_stats has returned statistics
GotStats ==
    /\ Resolved
    /\ query_result.intent = "get_stats"
    /\ query_result.result.success

\* C22: in the statistics of a player or of a team, event_counts[T] is the
\* number of selected events of type T, total_events is the sum of the
\* counts, grade_stats[T] exists exactly when a selected event of type T has
\* a grade, with the count, the sum, the quotient, the least and the
\* greatest of the grades, so that min <= avg <= max; the statistics are the
\* same in every order of the events.
C22_StatisticsAreAFold ==
    GotStats =>
        \A k \in DOMAIN query_result.result.data :
            LET record == query_result.result.data[k] IN
            /\ StatsAreRight(record.statistics, SelectedBy(record))
            /\ SameInEveryOrder(record)

\* the statistics of Carter over a try graded 9, a try graded 5 and a
\* tackle without grade
C22_Witness ==
    /\ GotStats
    /\ events = <<CarterTry9, CarterTry5, CarterTackle>>
    /\ Len(query_result.result.data) = 1
    /\ LET stats == query_result.result.data[1].statistics IN
        /\ stats.total_events = 3
        /\ stats.event_counts[Try] = 2
        /\ stats.event_counts[Tackle] = 1
        /\ DOMAIN stats.grade_stats = {Try}
        /\ stats.grade_stats[Try].min = 5
        /\ stats.grade_stats[Try].max = 9
        /\ stats.grade_stats[Try].avg = <<14, 2>>

-----------------------------------------------------------------------------
(* Claims about the counters of the classifier, checked under Spec.        *)

\* the step is a classify call with a query that is not empty once trimmed
NonEmptyClassify == last'.op = "classify" /\ Truthy(Strip(OrEmpty(last'.key)))

\* the step is a classify call that calls the service
ServiceCall == last'.op = "classify" /\ last'.svc # "none"

\* the counters count: the misses go up by one with every service call, the
\* hits with every other call with a non-empty query, and clear_cache sets
\* both to zero and empties the cache
CountersStep ==
    /\ last'.op = "classify" =>
        /\ cache_misses' = cache_misses + (IF ServiceCall THEN 1 ELSE 0)
        /\ cache_hits' + cache_misses' =
               cache_hits + cache_misses + (IF NonEmptyClassify THEN 1 ELSE 0)
    /\ last'.op = "clear_cache" =>
        /\ cache' = <<>>
        /\ cache_hits' = 0
        /\ cache_misses' = 0

SmallerOf(a, b) == IF a <= b THEN a ELSE b

\* C23: with caching enabled the misses are the service calls since the last
\* clear_cache (zero at first, one more with every service call, zero again
\* after clear_cache), hits + misses are the classify calls with a non-empty
\* trimmed query since then, the cache holds at most min(max_size, misses)
\* entries, and clear_cache empties the cache and resets both counters.
C23_CountersCountCalls ==
    /\ [](enable_caching => Len(cache) <= SmallerOf(max_size, cache_misses))
    /\ [](last.op = "init" => cache_hits = 0 /\ cache_misses = 0)
    /\ [][enable_caching => CountersStep]_vars

\* two service calls and one answer from the cache since the construction
C23_Witness ==
    /\ enable_caching
    /\ cache_misses = 2
    /\ cache_hits = 1
    /\ Len(cache) = 2
    /\ last.op = "classify"
    /\ last.svc = "none"
    /\ last.ret # None

-----------------------------------------------------------------------------
(* Claims about the cached default label, checked under Spec.              *)

\* the cache c holds get_stats for the normalized text of the query
HoldsDefault(c, query) ==
    LET norm == NormKey(Strip(OrEmpty(query)))
    IN  HasKey(c, norm) /\ ValueOf(c, norm) = "get_stats"

\* the step is a classify call whose service call returned a text
ServiceReturned == last'.op = "classify" /\ last'.svc = "returned"

\* classify returns, and a get_stats answer is stored under the normalized
\* query
DefaultStored ==
    /\ ~last'.raised
    /\ last'.ret = "get_stats" => HoldsDefault(cache', last'.key)

\* a classify call on a query whose normalized text has get_stats in the
\* cache is answered get_stats from the cache, without service call
DefaultServed ==
    (/\ last'.op = "classify"
     /\ Truthy(Strip(OrEmpty(last'.key)))
     /\ HoldsDefault(cache, last'.key)) =>
        /\ ~last'.raised
        /\ last'.ret = "get_stats"
        /\ last'.svc = "none"
        /\ cache_misses' = cache_misses
        /\ HoldsDefault(cache', last'.key)

\* an entry with get_stats stays as it is until the step removes its key
DefaultKept ==
    \A k \in KeysOf(cache) :
        ValueOf(cache, k) = "get_stats" =>
            \/ HasKey(cache', k) /\ ValueOf(cache', k) = "get_stats"
            \/ k \in last'.removed

\* the error sentinel parses to no label
SentinelIsNoLabel ==
    \A valid \in IntentLists :
        ClassifyWithLLM(valid, [raised |-> FALSE, raw |-> Sentinel]) = "get_stats"

\* C24 as stated: whenever the service returns a text that gives get_stats,
\* classify returns get_stats and stores it under the normalized query.
C24_Original == [][ServiceReturned => DefaultStored]_vars

\* C24 amended: with caching enabled and max_cache_size >= 1, when the
\* service returns the error sentinel or another text that parses to no
\* label, classify returns get_stats and stores it under the normalized
\* query; every later classify of that normalized query returns get_stats
\* from the cache without calling the service, until the entry is evicted
\* or the cache is cleared.
C24_DefaultIsCached ==
    /\ []SentinelIsNoLabel
    /\ [][(ServiceReturned /\ enable_caching /\ max_size >= 1) => DefaultStored]_vars
    /\ [][DefaultServed]_vars
    /\ [][DefaultKept]_vars

\* the service has returned a text without label and get_stats is in the
\* cache under the normalized query, next to an older entry
C24_Witness ==
    /\ last.op = "classify"
    /\ last.svc = "returned"
    /\ last.ret = "get_stats"
    /\ last.key.up
    /\ HoldsDefault(cache, last.key)
    /\ Len(cache) = 2
    /\ cache[2].key = NormKey(Strip(last.key))

-----------------------------------------------------------------------------
(* Claims about a cache of size 0, checked under Spec.                     *)

\* the step is a classify call, on a query that is not empty once trimmed,
\* of a classifier with caching enabled and max_cache_size = 0
ClassifyOnSizeZero ==
    /\ enable_caching
    /\ max_size = 0
    /\ last'.op = "classify"
    /\ Truthy(Strip(OrEmpty(last'.key)))

\* the call returns no label: the exception of put goes to the caller after
\* the service call and the increment of the miss counter
FailsAfterServiceCall ==
    /\ last'.raised
    /\ last'.ret = None
    /\ last'.svc # "none"
    /\ cache_misses' = cache_misses + 1
    /\ cache_hits' = cache_hits
    /\ cache' = <<>>

-----------------------------------------------------------------------------
(* SpecPipeline: a classifier with the default label list and a data       *)
(* handler; a query is classified, and the label that classify returns is  *)
(* the intent of get_data_for_query, with any entity set.                  *)

\* responses of the service: each label of either component as a bare
\* word, and a text without label
PipelineOutcomes ==
    {[raised |-> FALSE, raw |-> <<Word(Str(w, FALSE, FALSE))>>] :
        w \in Range(DefaultIntents) \cup HandledIntents \cup {"zzz"}}

PipelineDirs ==
    [game_files : {<<>>, <<File(Game1), File(Game2)>>},
     event_files : {<<>>, <<File(<<CarterTry9, BerdeuTry5, CarterTackle>>)>>}]

InitPipeline ==
    /\ \E dir \in PipelineDirs :
        /\ data_dir = dir
        /\ games = LoadData(dir).corpus.games
        /\ events = LoadData(dir).corpus.events
        /\ players = LoadData(dir).corpus.players
    /\ handler = "ready"
    /\ query_result = <<>>
    /\ valid_intents = DefaultIntents
    /\ enable_caching \in BOOLEAN
    /\ max_size = 1
    /\ cache = <<>>
    /\ cache_hits = 0
    /\ cache_misses = 0
    /\ last = NoOp
    /\ lastUse = [x \in CacheKeys |-> 0]
    /\ clock = 0
    /\ IdleParser
    /\ IdleRouting
    /\ IdleExtractor

\* intent = classify(query)
Understand(query, outcome) ==
    /\ query_result = <<>>
    /\ Classify(query, outcome)

\* get_data_for_query(entities, intent) with the intent just classified
Answer(entities) ==
    /\ query_result = <<>>
    /\ last.op = "classify"
    /\ ~last.raised
    /\ Resolve(entities, last.ret)

NextPipeline ==
    \/ \E query \in {EmptyStr, Str("q1", FALSE, FALSE), Str("q2", TRUE, TRUE)},
          outcome \in PipelineOutcomes : Understand(query, outcome)
    \/ \E entities \in EntitySets : Answer(entities)

SpecPipeline == InitPipeline /\ [][NextPipeline]_vars

-----------------------------------------------------------------------------
(* Claims about the composition, checked under SpecPipeline.               *)

UnhandledLabels == {"get_roster", "get_result", "get_grades"}

HandledLabels == {"get_stats", "compare", "get_player_info", "top_stat_in_game"}

\* C26: the intent that reaches the data handler is one of the seven default
\* labels; for get_roster, get_result and get_grades the result is
\* success=False with the error "Unknown intent: <intent>" and no data, for
\* every entity set and corpus; for get_stats, compare, get_player_info and
\* top_stat_in_game a handler runs; get_team_info, get_game_info and
\* get_rankings never come from classify.
C26_LabelsAndHandlers ==
    Resolved =>
        /\ query_result.intent = last.ret
        /\ query_result.intent \in UnhandledLabels \cup HandledLabels
        /\ UnhandledLabels \cup HandledLabels = Range(DefaultIntents)
        /\ ~query_result.raised
        /\ query_result.intent \in UnhandledLabels =>
            /\ query_result.result.success = FALSE
            /\ query_result.result.data = <<>>
            /\ query_result.result.error = UnknownIntent(query_result.intent)
            /\ query_result.caught = ""
        /\ query_result.intent \in HandledLabels =>
            query_result.result.error # UnknownIntent(query_result.intent)
        /\ query_result.intent \notin {"get_team_info", "get_game_info", "get_rankings"}

\* get_roster from classify, a player and a team in the entities, a loaded
\* corpus, and the "Unknown intent" answer
C26_Witness ==
    /\ Resolved
    /\ query_result.intent = "get_roster"
    /\ query_result.entities.players # <<>>
    /\ games # <<>>
    /\ events # <<>>
    /\ ~query_result.result.success
    /\ query_result.result.error = "Unknown intent: get_roster"

-----------------------------------------------------------------------------
(* Claims about the player that _handle_get_rankings selects, checked      *)
(* under SpecRankings.                                                     *)

\* the player_ids of the events passed
Candidates27(passed) == {passed[i].player_id : i \in DOMAIN passed} \ {0}

\* the candidates whose pair (count, average grade) is the greatest
Greatest(passed) ==
    {p \in Candidates27(passed) :
        \A q \in Candidates27(passed) : PairAtLeast(StatOf(passed, p), StatOf(passed, q))}

\* the position of the first event of the player among the events passed
FirstEventOf(passed, pid) ==
    CHOOSE i \in DOMAIN passed :
        /\ passed[i].player_id = pid
        /\ \A j \in 1..(i - 1) : passed[j].player_id # pid

\* among the players with the greatest pair, the one whose first event
\* comes earliest
EarliestGreatest(passed) ==
    CHOOSE p \in Greatest(passed) :
        \A q \in Greatest(passed) : FirstEventOf(passed, p) <= FirstEventOf(passed, q)

\* the player_id of the top performer of the record returned
TopOfRecord(result) == result.data[1].top_players[1].player.player_id

\* C27: in a ranking query, when the player_id with the greatest pair
\* (count, average grade), the earliest one on a tie, matches no loaded
\* player record, the result has empty data, success=False and the error
\* "No ranking data found": the handler does not fall back to another
\* player.
C27_NoFallback ==
    ( /\ Ranked
      /\ Candidates27(Passed) # {}
      /\ ~HasRecord(EarliestGreatest(Passed)) )
    => /\ query_result.result.data = <<>>
       /\ ~query_result.result.success
       /\ query_result.result.error = "No ranking data found"

\* C27 witness: the unknown player 99 has two tries and Carter, whose
\* record is loaded, has one; the result is empty.
C27_Witness ==
    /\ Ranked
    /\ events = <<DanglingTry, CarterTry9, DanglingTry>>
    /\ query_result.entities = Entities(<<>>, <<>>, <<>>)
    /\ Greatest(Passed) = {99}
    /\ HasRecord(7)
    /\ query_result.result.data = <<>>
    /\ ~query_result.result.success
    /\ query_result.result.error = "No ranking data found"

\* C28: the top performer of a ranking record is, among the players with
\* the greatest pair (count, average grade, 0 without graded event), the
\* one whose first event passing the filters comes earliest in the loaded
\* order.
C28_EarliestOnTie ==
    (Ranked /\ query_result.result.data # <<>>)
    => TopOfRecord(query_result.result) = EarliestGreatest(Passed)

\* the result of the same query on the loaded events in reverse order
OnReversedEvents ==
    GetDataForQuery(games, [i \in DOMAIN events |-> events[Len(events) + 1 - i]],
                    players, query_result.entities, query_result.intent)

\* C28 witness: Russell and Carter have one try of grade 5 each; Russell's
\* comes first and the record names Russell, and it names Carter when the
\* same events are loaded in the other order.
C28_Witness ==
    /\ Ranked
    /\ events = <<RussellTry5, CarterTry5>>
    /\ query_result.entities = Entities(<<>>, <<>>, <<>>)
    /\ Greatest(Passed) = {7, 9}
    /\ query_result.result.data # <<>>
    /\ TopOfRecord(query_result.result) = 9
    /\ OnReversedEvents.caught = ""
    /\ OnReversedEvents.result.data # <<>>
    /\ TopOfRecord(OnReversedEvents.result) = 7

-----------------------------------------------------------------------------
(* SpecPlayerInfo: one get_player_info query, of at most MaxRefs player    *)
(* references and MaxRefs team references, on a handler built over game    *)
(* files of which one has a team without name.                             *)

PlayerInfoDirs ==
    [game_files : Arrangements({File(Game1), File(Game2), File(Game3)}, MaxGameFiles)
                    \ {<<>>},
     event_files : {<<>>}]

PlayerRefPool ==
    {Name(<<"10">>, FALSE), Name(<<"99">>, FALSE), Name(<<"carter">>, TRUE),
     Name(<<"dan", "carter">>, FALSE)}

TeamRefPool == {Name(<<"racing">>, TRUE), Name(<<"92">>, FALSE), Name(<<"lyon">>, FALSE)}

PlayerInfoQueries ==
    {Entities(refs, teams, <<>>) :
        refs \in UNION {[1..n -> PlayerRefPool] : n \in 0..MaxRefs},
        teams \in UNION {[1..n -> TeamRefPool] : n \in 0..MaxRefs}}

InitPlayerInfo == \E dir \in PlayerInfoDirs : Constructed(dir)

NextPlayerInfo ==
    \E entities \in PlayerInfoQueries : Query(entities, "get_player_info")

SpecPlayerInfo == InitPlayerInfo /\ [][NextPlayerInfo]_vars

\* a get_player_info call has come back
AskedPlayerInfo == Resolved /\ query_result.intent = "get_player_info"

\* the number of times the claim puts the roster record p in the result for
\* the reference ref
Copies(ref, teams, p) ==
    IF IsDigitRef(ref)
    THEN IF p.jersey_number # IntOfRef(ref) THEN 0
         ELSE IF teams = <<>> THEN 1
         ELSE Cardinality({k \in DOMAIN teams :
                            /\ p.team_name # NoneName
                            /\ NameMatches(teams[k], p.team_name)})
    ELSE IF RefNamesPlayer(ref, p) THEN 1 ELSE 0

\* the number of times rec is in the result by the claim: the copies of
\* every roster record with that format, for every reference
ExpectedCopies(rec) ==
    LET refs == query_result.entities.players
        S == (DOMAIN players) \X (DOMAIN refs)
        f == [x \in S |->
                IF PlayerRecord(players[x[1]]) = rec
                THEN Copies(refs[x[2]], query_result.entities.teams, players[x[1]])
                ELSE 0]
    IN  SumOver(f, S)

\* every roster record is in the data as many times as the claim says,
\* and nothing else is
DataIsTheCopies ==
    LET data == query_result.result.data
        Times(rec) == Cardinality({k \in DOMAIN data : data[k] = rec})
    IN  /\ \A i \in DOMAIN players :
            Times(PlayerRecord(players[i])) = ExpectedCopies(PlayerRecord(players[i]))
        /\ \A k \in DOMAIN data : \E i \in DOMAIN players : data[k] = PlayerRecord(players[i])
        /\ query_result.result.success = (data # <<>>)

\* a numeric reference with team references meets a roster record of its
\* jersey number that has no team name
MeetsNameless ==
    /\ query_result.entities.teams # <<>>
    /\ \E j \in DOMAIN query_result.entities.players, i \in DOMAIN players :
        /\ IsDigitRef(query_result.entities.players[j])
        /\ players[i].jersey_number = IntOfRef(query_result.entities.players[j])
        /\ players[i].team_name = NoneName

====
